---- MODULE Spec2Model ----
(***************************************************************************)
(* VeriDocu server: the one-time-code authentication flows of              *)
(* src/src/routes/auth.routes.js, the employment and company verification  *)
(* actions of the candidate, company and admin routes, the SMTP failover   *)
(* of utils/mailer.js and the job application routes, as a state machine   *)
(* over the rows of the tables users, candidates, companies, otp_codes,    *)
(* employment_history and job_applications and the mailer's module state.  *)
(***************************************************************************)
EXTENDS Integers, Sequences, FiniteSets, Bags, TLC

(***************************************************************************)
(* Bounds of the model.                                                    *)
(***************************************************************************)
\* wall-clock minutes that pass in one Tick
TickStep == 10
\* the number of Ticks of a behaviour
MaxTicks == 1
\* rows the users table may hold
MaxUsers == 1
\* rows the otp_codes table may hold
MaxOtpRows == 2
\* distinct values generateOtpCode may draw
NumCodes == 2

(***************************************************************************)
(* Program constants.                                                      *)
(***************************************************************************)
\* INTERVAL '10 minutes'
OtpTtlMinutes == 10
\* Math.floor(100000 + Math.random() * 900000)
OtpCodeMin == 100000
\* body('password').isLength({ min: 8 })
MinPasswordLen == 8

\* the SQL NULL of users.password
NULL == <<>>
\* no token in a response body
NoToken == 0
\* no code in a request body
NoCode == 0
\* no registrationData in a body
NoRd == [name |-> "", hashedPassword |-> NULL, accountType |-> ""]

(***************************************************************************)
(* Strings whose characters matter (emails) are sequences of characters.   *)
(***************************************************************************)
EmailLowerA == <<"a", "@", "x", ".", "i", "o">>
EmailUpperA == <<"A", "@", "x", ".", "i", "o">>
EmailPaddedA == <<" ", "a", "@", "x", ".", "i", "o">>
NoEmail == <<>>

\* the emails a request body may carry: two that differ in case only
RawEmails == {EmailLowerA, EmailUpperA}

\* String.prototype.toLowerCase on one character
LowerChar(ch) ==
  CASE ch = "A" -> "a"
    [] ch = "B" -> "b"
    [] ch = "X" -> "x"
    [] ch = "I" -> "i"
    [] ch = "O" -> "o"
    [] OTHER -> ch

ToLowerCase(s) == [i \in 1..Len(s) |-> LowerChar(s[i])]

RECURSIVE TrimStart(_)
TrimStart(s) == IF s # <<>> /\ Head(s) = " " THEN TrimStart(Tail(s)) ELSE s

RECURSIVE TrimEnd(_)
TrimEnd(s) ==
  IF s # <<>> /\ s[Len(s)] = " " THEN TrimEnd(SubSeq(s, 1, Len(s) - 1)) ELSE s

Trim(s) == TrimEnd(TrimStart(s))

\* a faulty variant: lower case without the trim
LowerCaseOnly(email) == ToLowerCase(email)

\* normalizeEmailForOtp: trim and lowercase only
normalizeEmailForOtp(email) ==
  IF email = NoEmail THEN email ELSE ToLowerCase(Trim(email))

\* express-validator isEmail, on the shapes the model draws: no blank, one
\* "@" with a local part before it and a dotted domain after it
IsEmail(s) ==
  /\ \A i \in 1..Len(s) : s[i] # " "
  /\ Cardinality({i \in 1..Len(s) : s[i] = "@"}) = 1
  /\ \E i \in 2..Len(s) :
       /\ s[i] = "@"
       /\ \E j \in (i + 2)..(Len(s) - 2) : s[j] = "."

(***************************************************************************)
(* Input domains.                                                          *)
(***************************************************************************)
Codes == OtpCodeMin..(OtpCodeMin + NumCodes - 1)
Passwords == {"correct-horse", "battery-staple", "short"}
AccountTypes == {"candidate", "company", "admin"}
Names == {"", "Ann"}
\* purpose is chosen by the caller of /otp/request and /otp/verify
Purposes == {"login", "register", "2fa"}
\* what can go wrong while one request is served (at most one per request):
\* a statement of the handler throws, or the mailer does not deliver
MailEvents == {"mail_skipped", "mail_failed", "mail_threw"}

\* bcrypt.hash(password, salt)
Hash(pw) == <<"bcrypt", pw>>

\* bcrypt.compare(password, stored): "match", "nomatch", or "throw" when the
\* stored value is not a string (bcryptjs: Illegal arguments: string, object)
Compare(pw, stored) ==
  IF stored = NULL THEN "throw"
  ELSE IF stored = Hash(pw) THEN "match" ELSE "nomatch"

\* registrationData bodies a client may send to verify-email
RegData ==
  {[name |-> "Ann", hashedPassword |-> Hash("correct-horse"), accountType |-> t] :
     t \in AccountTypes \cup {""}}
    \cup {[name |-> "", hashedPassword |-> Hash("correct-horse"),
           accountType |-> "candidate"],
          [name |-> "Ann", hashedPassword |-> NULL, accountType |-> "candidate"]}

VARIABLES
  users,        \* table users: set of [id, email, pw, type, is_verified]
  candidates,   \* table candidates: set of user ids
  companies,    \* table companies: set of user ids
  otp_codes,    \* table otp_codes: bag of [email, code, purpose, expires_at, issuer]
  now,          \* NOW() of the database, in minutes
  env,          \* process.env: [REQUIRE_OTP_ON_REGISTER, ENABLE_OTP_ON_LOGIN]
  procs,        \* the requests in flight: where each stands in its handler
  employment_history,  \* table employment_history: set of rows
  company_rows, \* the companies rows the verification routes read
  mailer,       \* utils/mailer.js: the cached transport and the call in progress
  job_applications  \* table job_applications: set of [id, job_id, user_id, status]

vars ==
  <<users, candidates, companies, otp_codes, now, env, procs, employment_history,
    company_rows, mailer, job_applications>>

\* what the requests of the authentication routes leave alone when each runs
\* from its first statement to its response without another in between
NoRequestInFlight ==
  UNCHANGED <<procs, employment_history, company_rows, mailer, job_applications>>

(***************************************************************************)
(* Responses.  AppError(message, status) reaches the error formatter,      *)
(* which answers { success: false, message } with that status; any other   *)
(* exception is answered 500.                                              *)
(***************************************************************************)
Response(op, status, msg, token, flag, rd) ==
  [op |-> op, status |-> status, message |-> msg, token |-> token,
   flag |-> flag, rd |-> rd]

AppError(req, msg, status) == Response(req, status, msg, NoToken, "none", NoRd)

ServerError(req) == Response(req, 500, "Server Error", NoToken, "none", NoRd)

\* res.status(400).json({ success: false, errors: errors.array() })
ValidationError(req) == Response(req, 400, "errors", NoToken, "none", NoRd)

Ok(req, status, msg, token, flag) == Response(req, status, msg, token, flag, NoRd)

\* generateToken(id): jwt.sign({ id }): the token names the account
generateToken(id) == id

(***************************************************************************)
(* SQL statements.                                                         *)
(***************************************************************************)
\* SELECT ... FROM users WHERE email = $1
SelectUsersByEmail(us, email) == {u \in us : u.email = email}

\* SELECT ... FROM users WHERE email = $1 OR email = $2
SelectUsersByEitherEmail(us, e1, e2) == {u \in us : u.email = e1 \/ u.email = e2}

\* the UNIQUE constraint of users.email
UniqueEmailViolated(us, email) == \E u \in us : u.email = email

\* INSERT INTO users (...) RETURNING id: ids count up, rows are never deleted
NewUserId(us) == Cardinality(us) + 1

InsertUser(us, email, pw, type) ==
  us \cup {[id |-> NewUserId(us), email |-> email, pw |-> pw, type |-> type,
            is_verified |-> FALSE]}

\* a faulty variant: the expiry filter left out of the lookup
OtpMatchNoExpiry(r, email, code, purpose, t) ==
  r.email = email /\ r.code = code /\ r.purpose = purpose

\* a faulty variant: any code of the email and purpose matches
OtpMatchAnyCode(r, email, code, purpose, t) ==
  r.email = email /\ r.purpose = purpose /\ r.expires_at > t

\* WHERE email = $1 AND code = $2 AND purpose = $3 AND expires_at > NOW()
OtpMatch(r, email, code, purpose, t) ==
  r.email = email /\ r.code = code /\ r.purpose = purpose /\ r.expires_at > t

SelectOtp(otp, email, code, purpose, t) ==
  {r \in BagToSet(otp) : OtpMatch(r, email, code, purpose, t)}

\* the bag with the rows of keep alone, as many copies of each as before
BagOf(bag, keep) == [r \in keep |-> bag[r]]

\* a faulty variant: the delete removes no row
DeleteOtpNothing(otp, email, purpose) == otp

\* DELETE FROM otp_codes WHERE email = $1 AND purpose = $2
DeleteOtpByEmailPurpose(otp, email, purpose) ==
  BagOf(otp, {r \in BagToSet(otp) : ~(r.email = email /\ r.purpose = purpose)})

\* DELETE FROM otp_codes WHERE email = $1
DeleteOtpByEmail(otp, email) ==
  BagOf(otp, {r \in BagToSet(otp) : r.email # email})

\* VALUES ($1, $2, $3, NOW() + INTERVAL '10 minutes', NOW()); issuer records
\* which handler stored the row (no column of the table)
OtpRow(email, code, purpose, t, issuer) ==
  [email |-> email, code |-> code, purpose |-> purpose,
   expires_at |-> t + OtpTtlMinutes, created_at |-> t, issuer |-> issuer]

InsertOtp(otp, email, code, purpose, t, issuer) ==
  otp (+) SetToBag({OtpRow(email, code, purpose, t, issuer)})

\* rows that a lookup at time t can still match
Unexpired(otp, t) == {r \in BagToSet(otp) : r.expires_at > t}

(***************************************************************************)
(* A handler maps the tables to new tables and a response.                 *)
(***************************************************************************)

\* the events that change what a handler writes: the mailer's outcome and the
\* reCAPTCHA verdict change the response alone, so the steps of a handler are
\* the same with and without them
Writing(events) == events \ (MailEvents \cup {"recaptcha_fails"})

Out(us, ca, co, otp, r) ==
  [users |-> us, candidates |-> ca, companies |-> co, otp_codes |-> otp, resp |-> r]

\* the handler answers r and writes nothing
Same(r) == Out(users, candidates, companies, otp_codes, r)

WithinBounds(o) ==
  /\ Cardinality(o.users) <= MaxUsers
  /\ BagCardinality(o.otp_codes) <= MaxOtpRows

\* the handler wrote to a table; a request that returns before its first write
\* leaves every variable as it is
Writes(o) ==
  <<o.users, o.candidates, o.companies, o.otp_codes>>
    # <<users, candidates, companies, otp_codes>>

Commit(o) ==
  /\ Writes(o)
  /\ WithinBounds(o)
  /\ users' = o.users
  /\ candidates' = o.candidates
  /\ companies' = o.companies
  /\ otp_codes' = o.otp_codes
  /\ UNCHANGED <<now, env>>
  /\ NoRequestInFlight

(***************************************************************************)
(* POST /api/auth/otp/request                                              *)
(***************************************************************************)
OtpRequestEvents ==
  {"none", "delete_fails", "insert_otp_fails"} \cup MailEvents

\* a faulty variant: the answer carries the code that was stored
OtpRequestOutEchoingCode(email, purpose, code, ev) ==
  Out(users, candidates, companies,
      InsertOtp(DeleteOtpByEmail(otp_codes, normalizeEmailForOtp(email)),
                normalizeEmailForOtp(email), code, purpose, now, "otp/request"),
      Ok("otp/request", 200, "OTP sent to your email", code, "mailSent"))

OtpRequestOut(email, purpose, code, ev) ==
  LET req == "otp/request"
      normEmail == normalizeEmailForOtp(email)
      userCheck == SelectUsersByEmail(users, email)
      afterDelete == IF ev = "delete_fails" THEN otp_codes
                     ELSE DeleteOtpByEmail(otp_codes, normEmail)
      emailSent == ev \notin MailEvents
  IN  IF email = NoEmail THEN Same(AppError(req, "Email is required", 400))
      ELSE IF purpose = "register" /\ userCheck # {}
        THEN Same(AppError(req, "User already exists", 409))
      ELSE IF purpose = "login" /\ userCheck = {}
        THEN Same(AppError(req, "User not found; please register first", 404))
      ELSE IF ev = "insert_otp_fails"
        THEN Out(users, candidates, companies, afterDelete, ServerError(req))
      ELSE Out(users, candidates, companies,
               InsertOtp(afterDelete, normEmail, code, purpose, now, "otp/request"),
               Ok(req, 200,
                  IF emailSent THEN "OTP sent to your email"
                  ELSE "OTP generated (check server console in development)",
                  NoToken,
                  IF emailSent THEN "mailSent" ELSE "mailNotSent"))

OtpRequest ==
  \E email \in RawEmails \cup {EmailPaddedA}, purpose \in Purposes :
    /\ ~(purpose = "register" /\ SelectUsersByEmail(users, email) # {})
    /\ ~(purpose = "login" /\ SelectUsersByEmail(users, email) = {})
    /\ \E code \in Codes, ev \in Writing(OtpRequestEvents) :
         Commit(OtpRequestOut(email, purpose, code, ev))

(***************************************************************************)
(* Profile rows.                                                           *)
(***************************************************************************)
\* INSERT INTO candidates (user_id, ...) when accountType === 'candidate'
CandidatesAfter(ca, accountType, id) ==
  IF accountType = "candidate" THEN ca \cup {id} ELSE ca

\* a faulty variant: no companies row is written
CompaniesAfterNone(co, accountType, id) == co

\* INSERT INTO companies (..., user_id, ...) when accountType === 'company'
CompaniesAfter(co, accountType, id) ==
  IF accountType = "company" THEN co \cup {id} ELSE co

\* the statements that create an account and its profile, one after the
\* other on the pool (no transaction): an exception leaves what was written
CreateAccountOut(req, otp, email, pw, accountType, ev, status, msg) ==
  LET us == InsertUser(users, email, pw, accountType)
      id == NewUserId(users)
  IN  IF ev = "insert_user_fails" \/ UniqueEmailViolated(users, email)
        THEN Out(users, candidates, companies, otp, ServerError(req))
      ELSE IF ev = "insert_profile_fails" /\ accountType \in {"candidate", "company"}
        THEN Out(us, candidates, companies, otp, ServerError(req))
      ELSE Out(us, CandidatesAfter(candidates, accountType, id),
               CompaniesAfter(companies, accountType, id), otp,
               Ok(req, status, msg, generateToken(id), "none"))

(***************************************************************************)
(* POST /api/auth/otp/verify                                               *)
(***************************************************************************)
OtpVerifyEvents ==
  {"none", "delete_fails", "insert_user_fails", "insert_profile_fails"}

\* user is userResult.rows[0], NoUser when the query returns no row
NoUser ==
  [id |-> NoToken, email |-> NoEmail, pw |-> NULL, type |-> "", is_verified |-> FALSE]

OtpVerifyOut(email, code, purpose, accountType, ev, user) ==
  LET req == "otp/verify"
      normEmail == normalizeEmailForOtp(email)
      result == SelectOtp(otp_codes, normEmail, code, purpose, now)
      afterDelete == DeleteOtpByEmailPurpose(otp_codes, normEmail, purpose)
  IN  IF email = NoEmail \/ code = NoCode
        THEN Same(AppError(req, "Email and code are required", 400))
      ELSE IF result = {} THEN Same(AppError(req, "Invalid or expired code", 400))
      ELSE IF ev = "delete_fails" THEN Same(ServerError(req))
      ELSE IF purpose = "register"
        THEN IF user # NoUser
               THEN Out(users, candidates, companies, afterDelete,
                        AppError(req, "User already exists", 409))
             ELSE CreateAccountOut(req, afterDelete, email, NULL, accountType, ev,
                                   200, "success")
      ELSE IF user = NoUser
        THEN Out(users, candidates, companies, afterDelete,
                 AppError(req, "User not found", 404))
      ELSE Out(users, candidates, companies, afterDelete,
               Ok(req, 200, "success", generateToken(user.id), "none"))

\* the rows a query returned, or the one value that stands for no row
RowsOr(rows, none) == IF rows = {} THEN {none} ELSE rows

OtpVerify ==
  \E email \in RawEmails \cup {EmailPaddedA}, code \in Codes, purpose \in Purposes :
    /\ SelectOtp(otp_codes, normalizeEmailForOtp(email), code, purpose, now) # {}
    /\ \E accountType \in AccountTypes, ev \in OtpVerifyEvents,
          user \in RowsOr(SelectUsersByEitherEmail(users, email,
                                                   normalizeEmailForOtp(email)), NoUser) :
         Commit(OtpVerifyOut(email, code, purpose, accountType, ev, user))

(***************************************************************************)
(* POST /api/auth/register                                                 *)
(***************************************************************************)
RegisterEvents ==
  {"none", "recaptcha_fails", "delete_fails", "insert_otp_fails",
   "insert_user_fails", "insert_profile_fails"} \cup MailEvents

\* the express-validator chain of /register
RegisterValid(name, email, password, accountType) ==
  /\ name # ""
  /\ IsEmail(email)
  /\ Len(password) >= MinPasswordLen
  /\ accountType \in {"candidate", "company"}

RegisterOut(name, email, password, accountType, code, ev) ==
  LET req == "register"
      hashedPassword == Hash(password)
      afterDelete == IF ev = "delete_fails" THEN otp_codes
                     ELSE DeleteOtpByEmailPurpose(otp_codes, email, "register")
  IN  IF ~RegisterValid(name, email, password, accountType)
        THEN Same(ValidationError(req))
      ELSE IF ev = "recaptcha_fails"
        THEN Same(AppError(req, "reCAPTCHA verification failed", 400))
      ELSE IF SelectUsersByEmail(users, email) # {}
        THEN Same(AppError(req, "User already exists with this email", 409))
      ELSE IF ~env.REQUIRE_OTP_ON_REGISTER
        THEN CreateAccountOut(req, otp_codes, email, hashedPassword, accountType, ev,
                              201, "Account created successfully!")
      ELSE IF ev = "insert_otp_fails"
        THEN Out(users, candidates, companies, afterDelete, ServerError(req))
      ELSE Out(users, candidates, companies,
               InsertOtp(afterDelete, email, code, "register", now, "register"),
               Response(req, 201,
                        "Verification code sent to your email. Please verify to complete registration.",
                        NoToken, "requiresVerification",
                        [name |-> name, hashedPassword |-> hashedPassword,
                         accountType |-> accountType]))

Register ==
  \E name \in Names, email \in RawEmails \cup {EmailPaddedA},
     password \in {"correct-horse", "short"}, accountType \in AccountTypes :
    /\ RegisterValid(name, email, password, accountType)
    /\ SelectUsersByEmail(users, email) = {}
    /\ \E code \in Codes, ev \in Writing(RegisterEvents) :
         Commit(RegisterOut(name, email, password, accountType, code, ev))

(***************************************************************************)
(* POST /api/auth/verify-email                                             *)
(***************************************************************************)
VerifyEmailEvents ==
  {"none", "delete_fails", "insert_user_fails", "insert_profile_fails"}

VerifyEmailOut(email, code, rd, ev) ==
  LET req == "verify-email"
      result == SelectOtp(otp_codes, email, code, "register", now)
      afterDelete == DeleteOtpByEmailPurpose(otp_codes, email, "register")
  IN  IF email = NoEmail \/ code = NoCode
        THEN Same(AppError(req, "Email and verification code are required", 400))
      ELSE IF rd.name = "" \/ rd.hashedPassword = NULL \/ rd.accountType = ""
        THEN Same(AppError(req, "Registration data is required", 400))
      ELSE IF result = {}
        THEN Same(AppError(req, "Invalid or expired verification code", 400))
      ELSE IF ev = "delete_fails" THEN Same(ServerError(req))
      ELSE IF SelectUsersByEmail(users, email) # {}
        THEN Out(users, candidates, companies, afterDelete,
                 AppError(req, "User already exists with this email", 409))
      ELSE CreateAccountOut(req, afterDelete, email, rd.hashedPassword,
                            rd.accountType, ev, 200,
                            "Email verified and account created successfully!")

VerifyEmail ==
  \E email \in RawEmails, code \in Codes :
    /\ SelectOtp(otp_codes, email, code, "register", now) # {}
    /\ \E rd \in RegData, ev \in VerifyEmailEvents :
         Commit(VerifyEmailOut(email, code, rd, ev))

(***************************************************************************)
(* POST /api/auth/login                                                    *)
(***************************************************************************)
LoginEvents == {"none", "recaptcha_fails", "delete_fails", "insert_otp_fails"}

\* user is result.rows[0], NoUser when the query returns no row
LoginOut(email, password, code, ev, user) ==
  LET req == "login"
      isMatch == Compare(password, user.pw)
      afterDelete == IF ev = "delete_fails" THEN otp_codes
                     ELSE DeleteOtpByEmail(otp_codes, email)
  IN  IF ~IsEmail(email) \/ password = "" THEN Same(ValidationError(req))
      ELSE IF ev = "recaptcha_fails"
        THEN Same(AppError(req, "reCAPTCHA verification failed", 400))
      ELSE IF user = NoUser THEN Same(AppError(req, "Invalid credentials", 401))
      ELSE IF isMatch = "throw" THEN Same(ServerError(req))
      ELSE IF isMatch = "nomatch" THEN Same(AppError(req, "Invalid credentials", 401))
      ELSE IF env.ENABLE_OTP_ON_LOGIN
        THEN IF ev = "insert_otp_fails"
               THEN Out(users, candidates, companies, afterDelete, ServerError(req))
             ELSE Out(users, candidates, companies,
                      InsertOtp(afterDelete, email, code, "2fa", now, "login"),
                      Ok(req, 200, "OTP sent to email", NoToken, "otpRequired"))
      ELSE Same(Ok(req, 200, "success", generateToken(user.id), "none"))

Login ==
  \E email \in RawEmails \cup {EmailPaddedA},
     password \in {"correct-horse", "battery-staple", ""}, user \in users :
    /\ IsEmail(email) /\ password # ""
    /\ user \in SelectUsersByEmail(users, email)
    /\ Compare(password, user.pw) = "match"
    /\ \E code \in Codes, ev \in Writing(LoginEvents) :
         Commit(LoginOut(email, password, code, ev, user))

(***************************************************************************)
(* POST /api/auth/verify-login-otp                                         *)
(***************************************************************************)
VerifyLoginOtpEvents == {"none", "delete_fails"}

VerifyLoginOtpOut(email, code, ev, user) ==
  LET req == "verify-login-otp"
      result == SelectOtp(otp_codes, email, code, "2fa", now)
      afterDelete == DeleteOtpByEmailPurpose(otp_codes, email, "2fa")
  IN  IF ~IsEmail(email) \/ code = NoCode THEN Same(ValidationError(req))
      ELSE IF result = {}
        THEN Same(AppError(req, "Invalid or expired verification code", 400))
      ELSE IF ev = "delete_fails" THEN Same(ServerError(req))
      ELSE IF user = NoUser
        THEN Out(users, candidates, companies, afterDelete,
                 AppError(req, "User not found", 404))
      ELSE Out(users, candidates, companies, afterDelete,
               Ok(req, 200, "Login successful!", generateToken(user.id), "none"))

VerifyLoginOtp ==
  \E email \in RawEmails \cup {EmailPaddedA}, code \in Codes :
    /\ SelectOtp(otp_codes, email, code, "2fa", now) # {}
    /\ \E ev \in VerifyLoginOtpEvents,
          user \in RowsOr(SelectUsersByEmail(users, email), NoUser) :
         Commit(VerifyLoginOtpOut(email, code, ev, user))

(***************************************************************************)
(* POST /api/auth/forgot-password                                          *)
(***************************************************************************)
ForgotPasswordEvents ==
  {"none", "delete_fails", "insert_otp_fails"} \cup MailEvents

\* a faulty variant: the handler lets a failure of the mailer through
ForgotPasswordOutAwaitingMail(email, code, ev) ==
  Out(users, candidates, companies,
      InsertOtp(DeleteOtpByEmailPurpose(otp_codes, email, "reset-password"), email, code,
                "reset-password", now, "forgot-password"),
      IF ev \in {"mail_failed", "mail_threw"} THEN ServerError("forgot-password")
      ELSE Ok("forgot-password", 200,
              "If an account exists, a reset code has been sent to your email",
              NoToken, "none"))

ForgotPasswordOut(email, code, ev) ==
  LET req == "forgot-password"
      generic == Ok(req, 200,
                    "If an account exists, a reset code has been sent to your email",
                    NoToken, "none")
      afterDelete == IF ev = "delete_fails" THEN otp_codes
                     ELSE DeleteOtpByEmailPurpose(otp_codes, email, "reset-password")
  IN  IF ~IsEmail(email) THEN Same(ValidationError(req))
      ELSE IF SelectUsersByEmail(users, email) = {} THEN Same(generic)
      ELSE IF ev = "insert_otp_fails"
        THEN Out(users, candidates, companies, afterDelete, ServerError(req))
      ELSE Out(users, candidates, companies,
               InsertOtp(afterDelete, email, code, "reset-password", now,
                         "forgot-password"),
               generic)

ForgotPassword ==
  \E email \in RawEmails \cup {EmailPaddedA} :
    /\ IsEmail(email)
    /\ SelectUsersByEmail(users, email) # {}
    /\ \E code \in Codes, ev \in Writing(ForgotPasswordEvents) :
         Commit(ForgotPasswordOut(email, code, ev))

(***************************************************************************)
(* POST /api/auth/reset-password                                           *)
(***************************************************************************)
ResetPasswordEvents == {"none", "update_fails", "delete_fails"}

\* body('newPassword').isLength({ min: 6 })
MinNewPasswordLen == 6

\* UPDATE users SET <password column> = $1 WHERE id = $2
UpdatePassword(us, id, pw) ==
  {IF u.id = id THEN [u EXCEPT !.pw = pw] ELSE u : u \in us}

ResetPasswordOut(email, code, newPassword, ev, user) ==
  LET req == "reset-password"
      otpResult == SelectOtp(otp_codes, email, code, "reset-password", now)
      updated == UpdatePassword(users, user.id, Hash(newPassword))
  IN  IF ~IsEmail(email) \/ code = NoCode \/ Len(newPassword) < MinNewPasswordLen
        THEN Same(ValidationError(req))
      ELSE IF otpResult = {}
        THEN Same(AppError(req, "Invalid or expired reset code", 400))
      ELSE IF user = NoUser THEN Same(AppError(req, "User not found", 404))
      ELSE IF ev = "update_fails" THEN Same(ServerError(req))
      ELSE IF ev = "delete_fails"
        THEN Out(updated, candidates, companies, otp_codes, ServerError(req))
      ELSE Out(updated, candidates, companies,
               DeleteOtpByEmailPurpose(otp_codes, email, "reset-password"),
               Ok(req, 200, "Password reset successfully", NoToken, "none"))

ResetPassword ==
  \E email \in RawEmails \cup {EmailPaddedA}, code \in Codes,
     newPassword \in {"battery-staple", "short"} :
    /\ SelectOtp(otp_codes, email, code, "reset-password", now) # {}
    /\ \E ev \in ResetPasswordEvents,
          user \in RowsOr(SelectUsersByEmail(users, email), NoUser) :
         Commit(ResetPasswordOut(email, code, newPassword, ev, user))

(***************************************************************************)
(* Time passes between requests.                                           *)
(***************************************************************************)
Tick ==
  /\ now + TickStep <= MaxTicks * TickStep
  /\ now' = now + TickStep
  /\ UNCHANGED <<users, candidates, companies, otp_codes, env>>
  /\ NoRequestInFlight

(***************************************************************************)
(* The server starts on empty tables, under one of the configurations.     *)
(***************************************************************************)
Environments ==
  {[REQUIRE_OTP_ON_REGISTER |-> TRUE, ENABLE_OTP_ON_LOGIN |-> TRUE],
   [REQUIRE_OTP_ON_REGISTER |-> FALSE, ENABLE_OTP_ON_LOGIN |-> FALSE]}

\* a request slot that holds no request
Idle ==
  [pc |-> "idle", op |-> "none", email |-> NoEmail, code |-> NoCode,
   accountType |-> "", status |-> 0, id |-> 0, refused |-> FALSE, n |-> 0]

RaceProcs == {1, 2}

\* no transport: the null of cachedTransport and of createWorkingTransport
NoTransport == [port |-> 0, secure |-> FALSE]

\* the mailer's part of process.env: SMTP_HOST and SMTP_USER both set or not,
\* SMTP_PORT (0: not set), SMTP_SECURE ("true", "false" or not set)
NoSmtp == [configured |-> FALSE, port |-> 0, secure |-> ""]

\* the module as loaded: cachedTransport = null, lastTransportCheck = 0, no
\* call in progress; clock is Date.now() in minutes
MailerAtStart(smtp) ==
  [smtp |-> smtp, cachedTransport |-> NoTransport, lastTransportCheck |-> 0,
   clock |-> 0, pc |-> "idle", i |-> 0, callTime |-> 0, tried |-> <<>>,
   transport |-> NoTransport, answer |-> "", calls |-> 0]

EmptyTables ==
  /\ users = {}
  /\ candidates = {}
  /\ companies = {}
  /\ otp_codes = EmptyBag
  /\ now = 0

Init ==
  /\ EmptyTables
  /\ env \in Environments
  /\ procs = [p \in RaceProcs |-> Idle]
  /\ employment_history = {}
  /\ company_rows = {}
  /\ mailer = MailerAtStart(NoSmtp)
  /\ job_applications = {}

Next ==
  \/ OtpRequest
  \/ OtpVerify
  \/ Register
  \/ VerifyEmail
  \/ Login
  \/ VerifyLoginOtp
  \/ ForgotPassword
  \/ ResetPassword
  \/ Tick

Spec == Init /\ [][Next]_vars

(***************************************************************************)
(* Vocabulary of the properties.                                           *)
(***************************************************************************)
\* the request emails and codes the properties range over
RequestEmails == RawEmails \cup {EmailPaddedA}
\* a row that some verifying endpoint matches, at time t, for a call that
\* carries (email, purpose): /otp/verify looks the normalised email up,
\* verify-email, verify-login-otp and reset-password the email as sent
UsableFor(r, email, purpose, t) ==
  /\ r.purpose = purpose
  /\ r.expires_at > t
  /\ \/ r.email = normalizeEmailForOtp(email)
     \/ r.email = email /\ purpose \in {"register", "2fa", "reset-password"}

UsableCount(otp, email, purpose, t) ==
  BagCardinality(BagOf(otp, {r \in BagToSet(otp) : UsableFor(r, email, purpose, t)}))

\* C1: after a code-issuing request that ran alone and whose statements all
\* executed (register with REQUIRE_OTP_ON_REGISTER, login with
\* ENABLE_OTP_ON_LOGIN, forgot-password, /otp/request), one unexpired code at
\* most is usable for the email and purpose of that request.
C1_OneUsableCodePerEmailPurpose ==
  [][/\ \A email \in RequestEmails, accountType \in {"candidate", "company"},
           code \in Codes :
          LET o == RegisterOut("Ann", email, "correct-horse", accountType, code, "none")
          IN  Commit(o) /\ o.resp.flag = "requiresVerification"
                => UsableCount(otp_codes', email, "register", now') <= 1
     /\ \A email \in RequestEmails, code \in Codes :
          \A user \in RowsOr(SelectUsersByEmail(users, email), NoUser) :
            LET o == LoginOut(email, "correct-horse", code, "none", user)
            IN  Commit(o) /\ o.resp.flag = "otpRequired"
                  => UsableCount(otp_codes', email, "2fa", now') <= 1
     /\ \A email \in RequestEmails, code \in Codes :
          LET o == ForgotPasswordOut(email, code, "none")
          IN  Commit(o) /\ o.otp_codes # otp_codes
                => UsableCount(otp_codes', email, "reset-password", now') <= 1
     /\ \A email \in RequestEmails, purpose \in Purposes, code \in Codes :
          LET o == OtpRequestOut(email, purpose, code, "none")
          IN  Commit(o) /\ o.resp.status = 200
                => UsableCount(otp_codes', email, purpose, now') <= 1
    ]_vars

\* every verification call that carries (email, code, purpose) is answered 400
EveryVerifyFails(email, code, purpose) ==
  /\ \A accountType \in AccountTypes, ev \in OtpVerifyEvents :
       \A user \in RowsOr(SelectUsersByEitherEmail(users, email,
                                                   normalizeEmailForOtp(email)), NoUser) :
         OtpVerifyOut(email, code, purpose, accountType, ev, user).resp.status = 400
  /\ purpose = "register" =>
       \A rd \in RegData, ev \in VerifyEmailEvents :
         VerifyEmailOut(email, code, rd, ev).resp.status = 400
  /\ purpose = "2fa" =>
       \A ev \in VerifyLoginOtpEvents :
         \A user \in RowsOr(SelectUsersByEmail(users, email), NoUser) :
           VerifyLoginOtpOut(email, code, ev, user).resp.status = 400

\* C2: in the state that an accepting call of verify-email, verify-login-otp
\* or /otp/verify leaves, where no code has been issued since, every
\* verification call with the same email, code and purpose is answered 400.
C2_AcceptedCodeIsSpent ==
  [][\A email \in RequestEmails, code \in Codes :
          /\ (\E rd \in RegData, ev \in VerifyEmailEvents :
                LET o == VerifyEmailOut(email, code, rd, ev)
                IN  Commit(o) /\ o.resp.status = 200)
               => EveryVerifyFails(email, code, "register")'
          /\ (\E ev \in VerifyLoginOtpEvents :
                \E user \in RowsOr(SelectUsersByEmail(users, email), NoUser) :
                  LET o == VerifyLoginOtpOut(email, code, ev, user)
                  IN  Commit(o) /\ o.resp.status = 200)
               => EveryVerifyFails(email, code, "2fa")'
          /\ \A purpose \in Purposes :
               (\E accountType \in AccountTypes, ev \in OtpVerifyEvents :
                  \E user \in RowsOr(SelectUsersByEitherEmail(users, email,
                                       normalizeEmailForOtp(email)), NoUser) :
                    LET o == OtpVerifyOut(email, code, purpose, accountType, ev, user)
                    IN  Commit(o) /\ o.resp.status = 200)
                 => EveryVerifyFails(email, code, purpose)'
    ]_vars

(***************************************************************************)
(* Rejection of a verification call.                                       *)
(***************************************************************************)
\* the rows stored under (email, code, purpose), expired or not
KeyRows(email, code, purpose) ==
  {r \in BagToSet(otp_codes) :
     r.email = email /\ r.code = code /\ r.purpose = purpose}

\* the only rows stored under (email, code, purpose) were issued ten minutes
\* ago or earlier
OnlyOldRows(email, code, purpose) ==
  /\ KeyRows(email, code, purpose) # {}
  /\ \A r \in KeyRows(email, code, purpose) : now - r.created_at >= 10

\* the handler answered 400 without a token and wrote nothing
Rejected400(o) ==
  /\ o.resp.status = 400
  /\ o.resp.token = NoToken
  /\ o.users = users
  /\ o.candidates = candidates
  /\ o.companies = companies
  /\ o.otp_codes = otp_codes

UserOf(email) == RowsOr(SelectUsersByEmail(users, email), NoUser)

UserOfEither(email) ==
  RowsOr(SelectUsersByEitherEmail(users, email, normalizeEmailForOtp(email)), NoUser)

\* C3: a call of verify-email, verify-login-otp, reset-password or /otp/verify
\* whose only matching code rows were issued ten minutes ago or earlier is
\* answered 400 without a token and changes no table, whether or not the code
\* was ever consumed.
C3_ExpiredCodeRejected ==
  \A email \in RequestEmails, code \in Codes :
    /\ OnlyOldRows(email, code, "register") =>
         \A rd \in RegData, ev \in VerifyEmailEvents :
           Rejected400(VerifyEmailOut(email, code, rd, ev))
    /\ OnlyOldRows(email, code, "2fa") =>
         \A ev \in VerifyLoginOtpEvents, user \in UserOf(email) :
           Rejected400(VerifyLoginOtpOut(email, code, ev, user))
    /\ OnlyOldRows(email, code, "reset-password") =>
         \A newPassword \in {"battery-staple", "short"}, ev \in ResetPasswordEvents,
            user \in UserOf(email) :
           Rejected400(ResetPasswordOut(email, code, newPassword, ev, user))
    /\ \A purpose \in Purposes :
         OnlyOldRows(normalizeEmailForOtp(email), code, purpose) =>
           \A accountType \in AccountTypes, ev \in OtpVerifyEvents,
              user \in UserOfEither(email) :
             Rejected400(OtpVerifyOut(email, code, purpose, accountType, ev, user))

\* an account holds a reset-password code that was never consumed and is ten
\* minutes old, and reset-password refuses it
C3_Witness ==
  \E email \in RawEmails, code \in Codes :
    /\ SelectUsersByEmail(users, email) # {}
    /\ OnlyOldRows(email, code, "reset-password")
    /\ \A user \in UserOf(email) :
         ResetPasswordOut(email, code, "battery-staple", "none", user).resp.message
           = "Invalid or expired reset code"

(***************************************************************************)
(* Login with and without the second factor.                               *)
(***************************************************************************)
\* C4: a login with the account's email and password answers with the
\* account's token when ENABLE_OTP_ON_LOGIN is off; when it is on, the answer
\* carries otpRequired and no token, and verify-login-otp hands out a token
\* only for a 2fa code that a login stored.
C4_LoginTokenNeedsOtp ==
  \A email \in RequestEmails, code \in Codes :
    /\ \A user \in SelectUsersByEmail(users, email), password \in Passwords :
         Compare(password, user.pw) = "match" =>
           LET o == LoginOut(email, password, code, "none", user)
           IN  IF env.ENABLE_OTP_ON_LOGIN
                 THEN o.resp.flag = "otpRequired" /\ o.resp.token = NoToken
               ELSE o.resp.flag # "otpRequired" /\ o.resp.token = generateToken(user.id)
    /\ env.ENABLE_OTP_ON_LOGIN =>
         \A ev \in VerifyLoginOtpEvents, user \in UserOf(email) :
           VerifyLoginOtpOut(email, code, ev, user).resp.token # NoToken =>
             \E r \in SelectOtp(otp_codes, email, code, "2fa", now) : r.issuer = "login"

(***************************************************************************)
(* Registration behind a verification code.                                *)
(***************************************************************************)
\* the registrationData that /register returns to the client
ReturnedRegData ==
  {[name |-> "Ann", hashedPassword |-> Hash("correct-horse"), accountType |-> t] :
     t \in {"candidate", "company"}}

RegisterRows(otp, email) ==
  {r \in BagToSet(otp) : r.email = email /\ r.purpose = "register"}

\* C5: with REQUIRE_OTP_ON_REGISTER on, while the code that /register stored
\* for an email without an account is unexpired, verify-email with that code
\* and the returned registrationData answers 200 with the token of the new
\* account, adds that one account and the profile row of its type, and leaves
\* no register code for the email.
C5_VerifyEmailCreatesAccount ==
  \A r \in Unexpired(otp_codes, now), rd \in ReturnedRegData :
    (/\ env.REQUIRE_OTP_ON_REGISTER
     /\ r.purpose = "register" /\ r.issuer = "register"
     /\ SelectUsersByEmail(users, r.email) = {})
      => LET v == VerifyEmailOut(r.email, r.code, rd, "none")
             created == v.users \ users
         IN  /\ v.resp.status = 200
             /\ Cardinality(created) = 1
             /\ SelectUsersByEmail(v.users, r.email) = created
             /\ \A u \in created :
                  /\ u.type = rd.accountType /\ u.pw = rd.hashedPassword
                  /\ v.resp.token = generateToken(u.id) /\ v.resp.token # NoToken
                  /\ v.candidates = candidates
                       \cup (IF rd.accountType = "candidate" THEN {u.id} ELSE {})
                  /\ v.companies = companies
                       \cup (IF rd.accountType = "company" THEN {u.id} ELSE {})
             /\ RegisterRows(v.otp_codes, r.email) = {}

\* a company account that verify-email created: a hashed password, a companies
\* row, and no register code left for its email
C5_Witness ==
  /\ env.REQUIRE_OTP_ON_REGISTER
  /\ \E u \in users :
       /\ u.type = "company" /\ u.pw = Hash("correct-horse")
       /\ u.id \in companies /\ u.id \notin candidates
       /\ RegisterRows(otp_codes, u.email) = {}

\* C6: a verify-email call whose code is not the code of an unexpired register
\* row of the email, while such a row is stored, answers 400 and writes
\* nothing: no account, no profile, and the stored row stays and still matches.
C6_WrongCodeRejected ==
  \A email \in RequestEmails, code \in Codes \cup {NoCode} :
    LET stored == {r \in RegisterRows(otp_codes, email) : r.expires_at > now}
    IN  stored # {} /\ (\A r \in stored : r.code # code) =>
          \A rd \in RegData, ev \in VerifyEmailEvents :
            LET v == VerifyEmailOut(email, code, rd, ev)
            IN  /\ Rejected400(v)
                /\ \A r \in stored :
                     r \in SelectOtp(v.otp_codes, email, r.code, "register", now)

\* an email without an account holds an unexpired register code and
\* verify-email has refused another code for it
C6_Witness ==
  \E email \in RawEmails, code \in Codes :
    /\ SelectUsersByEmail(users, email) = {}
    /\ \E r \in RegisterRows(otp_codes, email) : r.expires_at > now /\ r.code # code
    /\ \A rd \in ReturnedRegData :
         VerifyEmailOut(email, code, rd, "none").resp.message
           = "Invalid or expired verification code"

(***************************************************************************)
(* No account enumeration.                                                 *)
(***************************************************************************)
\* C8: forgot-password answers an email without an account and an email with
\* one with the same response, whether or not the code was stored and the mail
\* delivered, and stores a reset-password code only for an email with an
\* account.
C8_ForgotPasswordUniform ==
  \A code \in Codes, ev \in ForgotPasswordEvents :
    /\ \A e1, e2 \in {e \in RequestEmails : IsEmail(e)} :
         SelectUsersByEmail(users, e1) = {} /\ SelectUsersByEmail(users, e2) # {}
           => ForgotPasswordOut(e1, code, ev).resp = ForgotPasswordOut(e2, code, ev).resp
    /\ \A email \in RequestEmails :
         ForgotPasswordOut(email, code, ev).otp_codes # otp_codes
           => SelectUsersByEmail(users, email) # {}

\* C9: login answers 401 'Invalid credentials' for an email without an account
\* and for every account given a password that is not its own, the accounts
\* with a null secret that /otp/verify created included.
C9_LoginUniform ==
  \A email \in {e \in RequestEmails : IsEmail(e)}, password \in Passwords,
     code \in Codes :
    \A user \in UserOf(email) :
      user = NoUser \/ user.pw # Hash(password) =>
        LET o == LoginOut(email, password, code, "none", user)
        IN  o.resp.status = 401 /\ o.resp.message = "Invalid credentials"

(***************************************************************************)
(* Requests that overlap.  A handler gives the event loop back at every    *)
(* await, so between two statements of one request the statements of       *)
(* another may run; no handler of auth.routes.js opens a transaction.      *)
(* Each step below is one awaited statement of /register, /verify-email    *)
(* or /otp/verify (purpose register) and what the handler does up to its   *)
(* next await.                                                             *)
(***************************************************************************)
\* the requests that the two slots serve in one behaviour
MaxRaceRequests == 3

RaceEmails == {EmailLowerA}
RaceOps == {"register", "verify-email", "otp/verify"}
RequestsMade == procs[1].n + procs[2].n

\* the email under which the request looks codes up
LookupEmail(q) ==
  IF q.op = "otp/verify" THEN normalizeEmailForOtp(q.email) ELSE q.email

\* the request answers with status; refused: it was turned down because the
\* email has an account
Done(q, status, refused) ==
  [q EXCEPT !.pc = "done", !.status = status, !.refused = refused]

RaceFrame ==
  UNCHANGED <<now, env, employment_history, company_rows, mailer, job_applications>>

\* a request arrives: validation and reCAPTCHA pass
RaceBegin(p) ==
  /\ procs[p].pc \in {"idle", "done"}
  /\ RequestsMade < MaxRaceRequests
  /\ \E op \in RaceOps, email \in RaceEmails, code \in Codes,
        accountType \in {"candidate", "company"} :
       procs' = [procs EXCEPT ![p] =
                   [pc |-> IF op = "register" THEN "check" ELSE "select_otp",
                    op |-> op, email |-> email, code |-> code,
                    accountType |-> accountType, status |-> 0, id |-> 0,
                    refused |-> FALSE, n |-> procs[p].n + 1]]
  /\ UNCHANGED <<users, candidates, companies, otp_codes>>
  /\ RaceFrame

\* /register: SELECT id FROM users WHERE email = $1, then the branch on
\* REQUIRE_OTP_ON_REGISTER
RaceRegisterCheck(p) ==
  LET q == procs[p]
  IN  /\ q.pc = "check"
      /\ procs' = [procs EXCEPT ![p] =
                     IF SelectUsersByEmail(users, q.email) # {} THEN Done(q, 409, TRUE)
                     ELSE IF env.REQUIRE_OTP_ON_REGISTER
                       THEN [q EXCEPT !.pc = "delete_otp"]
                     ELSE [q EXCEPT !.pc = "insert_user"]]
      /\ UNCHANGED <<users, candidates, companies, otp_codes>>
      /\ RaceFrame

\* the lookup of /verify-email and /otp/verify
RaceSelectOtp(p) ==
  LET q == procs[p]
  IN  /\ q.pc = "select_otp"
      /\ procs' = [procs EXCEPT ![p] =
                     IF SelectOtp(otp_codes, LookupEmail(q), q.code, "register", now) = {}
                       THEN Done(q, 400, FALSE)
                     ELSE [q EXCEPT !.pc = "delete_otp"]]
      /\ UNCHANGED <<users, candidates, companies, otp_codes>>
      /\ RaceFrame

\* DELETE FROM otp_codes WHERE email = $1 AND purpose = $2
RaceDeleteOtp(p) ==
  LET q == procs[p]
  IN  /\ q.pc = "delete_otp"
      /\ otp_codes' = DeleteOtpByEmailPurpose(otp_codes, LookupEmail(q), "register")
      /\ procs' = [procs EXCEPT ![p] =
                     [q EXCEPT !.pc = IF q.op = "register" THEN "insert_otp"
                                      ELSE "check_user"]]
      /\ UNCHANGED <<users, candidates, companies>>
      /\ RaceFrame

\* /register: INSERT INTO otp_codes, then the 201 with registrationData
RaceInsertOtp(p) ==
  LET q == procs[p]
  IN  /\ q.pc = "insert_otp"
      /\ otp_codes' = InsertOtp(otp_codes, q.email, q.code, "register", now, "register")
      /\ procs' = [procs EXCEPT ![p] = Done(q, 201, FALSE)]
      /\ UNCHANGED <<users, candidates, companies>>
      /\ RaceFrame

\* the existence check of /verify-email and /otp/verify, after the delete
RaceCheckUser(p) ==
  LET q == procs[p]
      found == IF q.op = "otp/verify"
                 THEN SelectUsersByEitherEmail(users, q.email, LookupEmail(q))
               ELSE SelectUsersByEmail(users, q.email)
  IN  /\ q.pc = "check_user"
      /\ procs' = [procs EXCEPT ![p] =
                     IF found # {} THEN Done(q, 409, TRUE)
                     ELSE [q EXCEPT !.pc = "insert_user"]]
      /\ UNCHANGED <<users, candidates, companies, otp_codes>>
      /\ RaceFrame

\* INSERT INTO users ... RETURNING id; an INSERT that the UNIQUE constraint
\* refuses throws, and the exception is answered 500
RaceInsertUser(p) ==
  LET q == procs[p]
      pw == IF q.op = "otp/verify" THEN NULL ELSE Hash("correct-horse")
  IN  /\ q.pc = "insert_user"
      /\ IF UniqueEmailViolated(users, q.email)
           THEN /\ procs' = [procs EXCEPT ![p] = Done(q, 500, TRUE)]
                /\ UNCHANGED users
         ELSE /\ users' = InsertUser(users, q.email, pw, q.accountType)
              /\ procs' = [procs EXCEPT ![p] =
                             [q EXCEPT !.pc = "insert_profile", !.id = NewUserId(users)]]
      /\ UNCHANGED <<candidates, companies, otp_codes>>
      /\ RaceFrame

\* INSERT INTO candidates / companies, then the response with the token
RaceInsertProfile(p) ==
  LET q == procs[p]
  IN  /\ q.pc = "insert_profile"
      /\ candidates' = CandidatesAfter(candidates, q.accountType, q.id)
      /\ companies' = CompaniesAfter(companies, q.accountType, q.id)
      /\ procs' = [procs EXCEPT ![p] =
                     Done(q, IF q.op = "register" THEN 201 ELSE 200, FALSE)]
      /\ UNCHANGED <<users, otp_codes>>
      /\ RaceFrame

RaceNext ==
  \E p \in RaceProcs :
    \/ RaceBegin(p)
    \/ RaceRegisterCheck(p)
    \/ RaceSelectOtp(p)
    \/ RaceDeleteOtp(p)
    \/ RaceInsertOtp(p)
    \/ RaceCheckUser(p)
    \/ RaceInsertUser(p)
    \/ RaceInsertProfile(p)

SpecRace == Init /\ [][RaceNext]_vars

\* C7: no two accounts hold the same email, and a registration attempt
\* (register, verify-email, /otp/verify with purpose register) that is turned
\* down because its email has an account is answered 409, also when two
\* attempts for one email run their existence check and their INSERT in turns.
C7_DuplicateRejected409 ==
  /\ \A u1, u2 \in users : u1.email = u2.email => u1 = u2
  /\ \A p \in RaceProcs :
       procs[p].pc = "done" /\ procs[p].refused => procs[p].status = 409

(***************************************************************************)
(* Employment verification: the candidate's submission and re-upload, the  *)
(* employer company's approve and reject, the admin's verify, reject and   *)
(* update.  A row of employment_history is                                 *)
(*   [id, candidate_id, company_id, company_name, verification_status,     *)
(*    rejection_reason, verified_by]                                       *)
(* with 0 for a NULL id and "" for a NULL text.                            *)
(***************************************************************************)
\* the employment_history rows of one behaviour
MaxEmployments == 2

\* the accounts that call the verification routes: two companies, a candidate
\* and an admin, each with the profile row its registration wrote
SeedUsers ==
  {[id |-> 1, email |-> <<"a", "@", "x", ".", "i", "o">>,
    pw |-> Hash("correct-horse"), type |-> "company",
    is_verified |-> FALSE],
   [id |-> 2, email |-> <<"b", "@", "x", ".", "i", "o">>,
    pw |-> Hash("correct-horse"), type |-> "company",
    is_verified |-> FALSE],
   [id |-> 3, email |-> <<"i", "@", "x", ".", "i", "o">>,
    pw |-> Hash("correct-horse"), type |-> "candidate",
    is_verified |-> FALSE],
   [id |-> 4, email |-> <<"o", "@", "x", ".", "i", "o">>,
    pw |-> Hash("correct-horse"), type |-> "admin",
    is_verified |-> FALSE]}

\* a companies row is [id, user_id, name, verification_status, is_verified,
\* rejection_reason, hr_document_url]; verification_status DEFAULT 'pending'
SeedCompanies ==
  {[id |-> 5, user_id |-> 1, name |-> <<"A", "B">>, verification_status |-> "pending",
    is_verified |-> FALSE, rejection_reason |-> "", hr_document_url |-> ""],
   [id |-> 6, user_id |-> 2, name |-> <<"X", "I">>, verification_status |-> "pending",
    is_verified |-> FALSE, rejection_reason |-> "", hr_document_url |-> ""]}

\* req.user after protect; NoUser when the request carries no valid token
Callers == SeedUsers \cup {NoUser}

CompanyNames == {<<"a", "b">>, <<"X", "I">>}
CompanyIds == {0, 5, 6}
VerificationTypes == {"manual", "auto"}
VerificationStatuses == {"pending", "in_review", "verified", "rejected"}
Reasons == {"", "no record"}
EmploymentIds == 1..(MaxEmployments + 1)

EmploymentOut(eh, status, msg) ==
  [employment_history |-> eh, resp |-> [status |-> status, message |-> msg]]

\* protect, then authorize(accountType)
Guard(caller, accountType) ==
  IF caller = NoUser THEN 401
  ELSE IF caller.type # accountType THEN 403
  ELSE 200

GuardMessage(status) ==
  IF status = 401 THEN "Not authorized to access this route"
  ELSE "User account type is not authorized to access this route"

\* UPDATE employment_history SET <the fields of set> WHERE id = $n
UpdateEmployment(eh, id, set) == {IF r.id = id THEN set @@ r ELSE r : r \in eh}

\* verificationType === 'manual' ? 'pending' : 'in_review'
SubmittedStatus(verificationType) ==
  IF verificationType = "manual" THEN "pending" ELSE "in_review"

\* POST /employment-verification
SubmitEmploymentVerificationOut(caller, companyName, companyId, verificationType, hasFile, uploadFails) ==
  LET g == Guard(caller, "candidate")
      row == [id |-> Cardinality(employment_history) + 1, candidate_id |-> caller.id,
              company_id |-> companyId, company_name |-> companyName,
              verification_status |-> SubmittedStatus(verificationType),
              rejection_reason |-> "", verified_by |-> 0]
  IN  IF g # 200 THEN EmploymentOut(employment_history, g, GuardMessage(g))
      ELSE IF ~hasFile
        THEN EmploymentOut(employment_history, 400, "Verification document is required")
      ELSE IF uploadFails
        THEN EmploymentOut(employment_history, 500, "Failed to upload document")
      ELSE IF caller.id \notin candidates
        THEN EmploymentOut(employment_history, 404, "Candidate profile not found")
      ELSE EmploymentOut(employment_history \cup {row}, 201,
                         "Employment verification request submitted successfully")

\* POST /employment-verification/update
UpdateEmploymentVerificationOut(caller, employmentId, companyId, verificationType, hasFile, uploadFails) ==
  LET g == Guard(caller, "candidate")
      set == [company_id |-> companyId,
              verification_status |-> SubmittedStatus(verificationType)]
  IN  IF g # 200 THEN EmploymentOut(employment_history, g, GuardMessage(g))
      ELSE IF ~hasFile
        THEN EmploymentOut(employment_history, 400, "Verification document is required")
      ELSE IF caller.id \notin candidates
        THEN EmploymentOut(employment_history, 404, "Candidate profile not found")
      ELSE IF ~\E r \in employment_history :
                 r.id = employmentId /\ r.candidate_id = caller.id
        THEN EmploymentOut(employment_history, 404,
                           "Employment record not found or access denied")
      ELSE IF uploadFails
        THEN EmploymentOut(employment_history, 500, "Failed to upload document")
      ELSE EmploymentOut(UpdateEmployment(employment_history, employmentId, set), 200,
                         "Verification document uploaded successfully")

\* SELECT id FROM companies WHERE user_id = $1
CompanyOf(caller) == {c \in company_rows : c.user_id = caller.id}

\* a faulty variant: the row is not compared with the caller's company
EmploymentCheckAnyCompany(eh, id, company) == {r \in eh : r.id = id}

\* SELECT id FROM employment_history WHERE id = $1
\*   AND (company_id = $2 OR LOWER(company_name) = LOWER($3))
EmploymentCheck(eh, id, company) ==
  {r \in eh : /\ r.id = id
              /\ \/ r.company_id = company.id
                 \/ ToLowerCase(r.company_name) = ToLowerCase(company.name)}

\* POST /verification-requests/:id/approve
ApproveOut(caller, id) ==
  LET g == Guard(caller, "company")
      set == [verification_status |-> "verified", verified_by |-> caller.id]
  IN  IF g # 200 THEN EmploymentOut(employment_history, g, GuardMessage(g))
      ELSE IF CompanyOf(caller) = {}
        THEN EmploymentOut(employment_history, 404, "Company not found")
      ELSE IF \A c \in CompanyOf(caller) : EmploymentCheck(employment_history, id, c) = {}
        THEN EmploymentOut(employment_history, 404,
               "Employment record not found or does not belong to your company")
      ELSE EmploymentOut(UpdateEmployment(employment_history, id, set), 200,
                         "Employment verified successfully")

\* POST /verification-requests/:id/reject
RejectOut(caller, id, reason) ==
  LET g == Guard(caller, "company")
      set == [verification_status |-> "rejected", verified_by |-> caller.id,
              rejection_reason |-> reason]
  IN  IF g # 200 THEN EmploymentOut(employment_history, g, GuardMessage(g))
      ELSE IF reason = ""
        THEN EmploymentOut(employment_history, 400, "Rejection reason is required")
      ELSE IF CompanyOf(caller) = {}
        THEN EmploymentOut(employment_history, 404, "Company not found")
      ELSE IF \A c \in CompanyOf(caller) : EmploymentCheck(employment_history, id, c) = {}
        THEN EmploymentOut(employment_history, 404,
               "Employment record not found or does not belong to your company")
      ELSE EmploymentOut(UpdateEmployment(employment_history, id, set), 200,
                         "Verification request rejected")

\* POST /api/admin/employments/:id/verify
AdminVerifyOut(caller, id) ==
  LET g == Guard(caller, "admin")
      set == [verification_status |-> "verified", verified_by |-> caller.id]
  IN  IF g # 200 THEN EmploymentOut(employment_history, g, GuardMessage(g))
      ELSE IF ~\E r \in employment_history : r.id = id
        THEN EmploymentOut(employment_history, 404, "Employment record not found")
      ELSE EmploymentOut(UpdateEmployment(employment_history, id, set), 200,
                         "Employment verified successfully")

\* POST /api/admin/employments/:id/reject
AdminRejectOut(caller, id, reason) ==
  LET g == Guard(caller, "admin")
      set == [verification_status |-> "rejected", verified_by |-> caller.id,
              rejection_reason |-> reason]
  IN  IF g # 200 THEN EmploymentOut(employment_history, g, GuardMessage(g))
      ELSE IF ~\E r \in employment_history : r.id = id
        THEN EmploymentOut(employment_history, 404, "Employment record not found")
      ELSE EmploymentOut(UpdateEmployment(employment_history, id, set), 200,
                         "Employment rejected")

\* PUT /api/admin/employments/:id
AdminUpdateEmploymentOut(caller, id, companyName, verificationStatus) ==
  LET g == Guard(caller, "admin")
      set == [company_name |-> companyName,
              verification_status |-> verificationStatus]
  IN  IF g # 200 THEN EmploymentOut(employment_history, g, GuardMessage(g))
      ELSE IF ~\E r \in employment_history : r.id = id
        THEN EmploymentOut(employment_history, 404, "Employment record not found")
      ELSE EmploymentOut(UpdateEmployment(employment_history, id, set), 200,
                         "Employment verification updated successfully")

\* the request is served and its writes are committed
CommitEmployment(o) ==
  /\ o.employment_history # employment_history
  /\ Cardinality(o.employment_history) <= MaxEmployments
  /\ employment_history' = o.employment_history
  /\ UNCHANGED <<users, candidates, companies, otp_codes, now, env, procs, company_rows,
                 mailer, job_applications>>

SubmitEmploymentVerification ==
  \E caller \in Callers, companyName \in CompanyNames, companyId \in CompanyIds,
     verificationType \in VerificationTypes :
    CommitEmployment(SubmitEmploymentVerificationOut(caller, companyName, companyId,
                                                     verificationType, TRUE, FALSE))

UpdateEmploymentVerification ==
  \E caller \in Callers, employmentId \in EmploymentIds, companyId \in CompanyIds,
     verificationType \in VerificationTypes :
    CommitEmployment(UpdateEmploymentVerificationOut(caller, employmentId, companyId,
                                                     verificationType, TRUE, FALSE))

Approve ==
  \E caller \in Callers, id \in EmploymentIds : CommitEmployment(ApproveOut(caller, id))

Reject ==
  \E caller \in Callers, id \in EmploymentIds, reason \in Reasons :
    CommitEmployment(RejectOut(caller, id, reason))

AdminVerify ==
  \E caller \in Callers, id \in EmploymentIds :
    CommitEmployment(AdminVerifyOut(caller, id))

AdminReject ==
  \E caller \in Callers, id \in EmploymentIds, reason \in Reasons :
    CommitEmployment(AdminRejectOut(caller, id, reason))

AdminUpdateEmployment ==
  \E caller \in Callers, id \in EmploymentIds, companyName \in CompanyNames,
     verificationStatus \in VerificationStatuses :
    CommitEmployment(AdminUpdateEmploymentOut(caller, id, companyName,
                                              verificationStatus))

\* the accounts are registered and no employment is on record
InitEmployment ==
  /\ users = SeedUsers
  /\ candidates = {3}
  /\ companies = {1, 2}
  /\ otp_codes = EmptyBag
  /\ now = 0
  /\ env = [REQUIRE_OTP_ON_REGISTER |-> TRUE, ENABLE_OTP_ON_LOGIN |-> TRUE]
  /\ procs = [p \in RaceProcs |-> Idle]
  /\ employment_history = {}
  /\ company_rows = SeedCompanies
  /\ mailer = MailerAtStart(NoSmtp)
  /\ job_applications = {}

EmploymentNext ==
  \/ SubmitEmploymentVerification
  \/ UpdateEmploymentVerification
  \/ Approve
  \/ Reject
  \/ AdminVerify
  \/ AdminReject
  \/ AdminUpdateEmployment

SpecEmployment == InitEmployment /\ [][EmploymentNext]_vars

\* the verification_status of row id in the table eh
StatusIn(eh, id) == {r.verification_status : r \in {x \in eh : x.id = id}}

\* C10: an approve or a reject, by the employer company or by an admin, leaves
\* the verification status of a row that is verified or rejected as it is; it
\* changes the status of pending and in_review rows only.
C10_DecidedStatusStays ==
  \A r \in employment_history, caller \in Callers, reason \in Reasons :
    r.verification_status \in {"verified", "rejected"} =>
      /\ StatusIn(ApproveOut(caller, r.id).employment_history, r.id)
           = {r.verification_status}
      /\ StatusIn(RejectOut(caller, r.id, reason).employment_history, r.id)
           = {r.verification_status}
      /\ StatusIn(AdminVerifyOut(caller, r.id).employment_history, r.id)
           = {r.verification_status}
      /\ StatusIn(AdminRejectOut(caller, r.id, reason).employment_history, r.id)
           = {r.verification_status}

(***************************************************************************)
(* The employer's decision is limited to its own records.                  *)
(***************************************************************************)
\* the record names the company: by company_id, or by company_name up to case
BelongsTo(r, company) ==
  \/ r.company_id = company.id
  \/ ToLowerCase(r.company_name) = ToLowerCase(company.name)

\* the company accounts whose companies row matches no field of record r
Strangers(r) ==
  {caller \in Callers :
     /\ caller.type = "company"
     /\ \A c \in CompanyOf(caller) : ~BelongsTo(r, c)}

\* the rows of the table that the request changed or removed
Changed(o) == employment_history \ o.employment_history

\* the request answered status and left the table as it was
Refused(o, status) ==
  o.resp.status = status /\ o.employment_history = employment_history

\* C11 as stated: every approve and every reject of a company for a record
\* that does not belong to it is answered 404 and changes nothing.
C11_StrangerAlways404 ==
  \A r \in employment_history, reason \in Reasons :
    \A caller \in Strangers(r) :
      /\ Refused(ApproveOut(caller, r.id), 404)
      /\ Refused(RejectOut(caller, r.id, reason), 404)

\* C11: a company's approve or reject changes no record but one that carries
\* the caller's company id or, up to case, the caller's company name; for any
\* other record approve is answered 404 and reject with a reason is answered
\* 404, reject without a reason is answered 400, and the table stays as it is.
C11_OnlyOwnCompanyDecides ==
  /\ \A caller \in Callers, id \in EmploymentIds, reason \in Reasons :
       caller.type = "company" =>
         \A r \in Changed(ApproveOut(caller, id)) \cup Changed(RejectOut(caller, id, reason)) :
           r.id = id /\ \E c \in CompanyOf(caller) : BelongsTo(r, c)
  /\ \A r \in employment_history, reason \in Reasons :
       \A caller \in Strangers(r) :
         /\ Refused(ApproveOut(caller, r.id), 404)
         /\ Refused(RejectOut(caller, r.id, reason), IF reason = "" THEN 400 ELSE 404)

\* a company has decided a record of its own, and another company's record is
\* on file that it is refused for
C11_Witness ==
  \E caller \in Callers, own, other \in employment_history :
    /\ caller.type = "company"
    /\ own.verified_by = caller.id
    /\ \E c \in CompanyOf(caller) : BelongsTo(own, c)
    /\ caller \in Strangers(other)
    /\ other.verification_status \in {"pending", "in_review"}
    /\ ApproveOut(caller, other.id).resp.message
         = "Employment record not found or does not belong to your company"

(***************************************************************************)
(* Company verification: the company's HR document upload and the admin's  *)
(* verify, reject and update of a companies row.                           *)
(***************************************************************************)
CompanyOut(cr, us, status, msg) ==
  [company_rows |-> cr, users |-> us, resp |-> [status |-> status, message |-> msg]]

\* the statuses an admin may put in the body of PUT /companies/:id
CompanyStatuses == {"pending", "verified", "rejected"}

\* the ids a path may carry: the users and companies on file and one unknown
PathIds == 1..7

\* UPDATE companies SET <the fields of set> WHERE id = $n
UpdateCompanyById(cr, id, set) == {IF c.id = id THEN set @@ c ELSE c : c \in cr}

\* UPDATE companies SET <the fields of set> WHERE user_id = $1
UpdateCompanyByUser(cr, userId, set) ==
  {IF c.user_id = userId THEN set @@ c ELSE c : c \in cr}

\* UPDATE users SET is_verified = true WHERE id = $1
VerifyUser(us, id) == {IF u.id = id THEN [u EXCEPT !.is_verified = TRUE] ELSE u : u \in us}

\* companyResult.rows[0], NoCompany when the query returns no row
NoCompany ==
  [id |-> 0, user_id |-> 0, name |-> <<>>, verification_status |-> "",
   is_verified |-> FALSE, rejection_reason |-> "", hr_document_url |-> ""]

\* a faulty variant: the UPDATE runs and stays although the upload failed
HrVerificationOutKeepingWrite(caller, company, hasFile, uploadFails) ==
  CompanyOut(UpdateCompanyById(company_rows, company.id,
                               [hr_document_url |-> "hr-doc",
                                verification_status |-> "pending"]),
             users, IF uploadFails THEN 500 ELSE 200, "Failed to upload document")

\* POST /hr-verification; company is companyResult.rows[0]
HrVerificationOut(caller, company, hasFile, uploadFails) ==
  LET g == Guard(caller, "company")
      set == [hr_document_url |-> "hr-doc", verification_status |-> "pending"]
  IN  IF g # 200 THEN CompanyOut(company_rows, users, g, GuardMessage(g))
      ELSE IF ~hasFile THEN CompanyOut(company_rows, users, 400, "Document is required")
      ELSE IF company = NoCompany
        THEN CompanyOut(company_rows, users, 404, "Company not found")
      ELSE IF uploadFails
        THEN CompanyOut(company_rows, users, 500, "Failed to upload document")
      ELSE CompanyOut(UpdateCompanyById(company_rows, company.id, set), users, 200,
                      "HR verification document uploaded successfully. Pending admin review.")

\* POST /api/admin/companies/:id/verify; :id is compared with user_id
AdminVerifyCompanyOut(caller, id) ==
  LET g == Guard(caller, "admin")
      set == [verification_status |-> "verified", is_verified |-> TRUE]
  IN  IF g # 200 THEN CompanyOut(company_rows, users, g, GuardMessage(g))
      ELSE IF ~\E c \in company_rows : c.user_id = id
        THEN CompanyOut(company_rows, users, 404, "Company not found")
      ELSE CompanyOut(UpdateCompanyByUser(company_rows, id, set), VerifyUser(users, id),
                      200, "Company verified successfully")

\* POST /api/admin/companies/:id/reject; :id is compared with user_id
AdminRejectCompanyOut(caller, id, reason) ==
  LET g == Guard(caller, "admin")
      set == [verification_status |-> "rejected", rejection_reason |-> reason]
  IN  IF g # 200 THEN CompanyOut(company_rows, users, g, GuardMessage(g))
      ELSE IF ~\E c \in company_rows : c.user_id = id
        THEN CompanyOut(company_rows, users, 404, "Company not found")
      ELSE CompanyOut(UpdateCompanyByUser(company_rows, id, set), users, 200,
                      "Company rejected")

\* PUT /api/admin/companies/:id; :id is compared with companies.id
AdminUpdateCompanyOut(caller, id, name, verificationStatus) ==
  LET g == Guard(caller, "admin")
      set == [name |-> name, verification_status |-> verificationStatus,
              is_verified |-> (verificationStatus = "verified")]
  IN  IF g # 200 THEN CompanyOut(company_rows, users, g, GuardMessage(g))
      ELSE IF ~\E c \in company_rows : c.id = id
        THEN CompanyOut(company_rows, users, 404, "Company not found")
      ELSE CompanyOut(UpdateCompanyById(company_rows, id, set), users, 200,
                      "Company verification updated successfully")

\* the request is served and its writes are committed
CommitCompany(o) ==
  /\ <<o.company_rows, o.users>> # <<company_rows, users>>
  /\ company_rows' = o.company_rows
  /\ users' = o.users
  /\ UNCHANGED <<candidates, companies, otp_codes, now, env, procs, employment_history,
                 mailer, job_applications>>

HrVerification ==
  \E caller \in Callers :
    \E company \in RowsOr(CompanyOf(caller), NoCompany) :
      CommitCompany(HrVerificationOut(caller, company, TRUE, FALSE))

AdminVerifyCompany ==
  \E caller \in Callers, id \in PathIds : CommitCompany(AdminVerifyCompanyOut(caller, id))

AdminRejectCompany ==
  \E caller \in Callers, id \in PathIds, reason \in Reasons :
    CommitCompany(AdminRejectCompanyOut(caller, id, reason))

AdminUpdateCompany ==
  \E caller \in Callers, id \in PathIds, name \in CompanyNames,
     verificationStatus \in CompanyStatuses :
    CommitCompany(AdminUpdateCompanyOut(caller, id, name, verificationStatus))

CompanyNext ==
  \/ HrVerification
  \/ AdminVerifyCompany
  \/ AdminRejectCompany
  \/ AdminUpdateCompany

SpecCompany == InitEmployment /\ [][CompanyNext]_vars

\* the verification_status of each company of the table cr
CompanyStatusIn(cr) == {<<c.id, c.verification_status>> : c \in cr}

\* C12: no request of a caller that is not an admin (a company, a candidate,
\* a caller without a token) changes the verification_status of a company:
\* the status changes through the admin's verify, reject and update alone.
C12_OnlyAdminChangesCompanyStatus ==
  \A caller \in Callers :
    caller.type # "admin" =>
      /\ \A company \in RowsOr(CompanyOf(caller), NoCompany), hasFile \in BOOLEAN,
            uploadFails \in BOOLEAN :
           CompanyStatusIn(HrVerificationOut(caller, company, hasFile,
                                             uploadFails).company_rows)
             = CompanyStatusIn(company_rows)
      /\ \A id \in PathIds, reason \in Reasons, name \in CompanyNames,
            verificationStatus \in CompanyStatuses :
           /\ AdminVerifyCompanyOut(caller, id).company_rows = company_rows
           /\ AdminRejectCompanyOut(caller, id, reason).company_rows = company_rows
           /\ AdminUpdateCompanyOut(caller, id, name, verificationStatus).company_rows
                = company_rows

(***************************************************************************)
(* The accounts that the registration endpoints create.                    *)
(***************************************************************************)
\* C13: every account that register, verify-email and /otp/verify (purpose
\* register) create has account type candidate or company.
C13_RegisteredTypeCandidateOrCompany ==
  \A u \in users : u.type \in {"candidate", "company"}

\* C14: registration cannot skip the code: register creates no account
\* whatever the configuration, and verify-email and /otp/verify create one
\* only when the lookup of the register code returned a row.
C14_RegisterNeverCreatesAccount ==
  /\ \A name \in Names, email \in RequestEmails, password \in {"correct-horse", "short"},
        accountType \in AccountTypes, code \in Codes, ev \in RegisterEvents :
       RegisterOut(name, email, password, accountType, code, ev).users = users
  /\ \A email \in RequestEmails, code \in Codes, rd \in RegData, ev \in VerifyEmailEvents :
       VerifyEmailOut(email, code, rd, ev).users # users
         => SelectOtp(otp_codes, email, code, "register", now) # {}
  /\ \A email \in RequestEmails, code \in Codes, purpose \in Purposes,
        accountType \in AccountTypes, ev \in OtpVerifyEvents :
       \A user \in UserOfEither(email) :
         OtpVerifyOut(email, code, purpose, accountType, ev, user).users # users
           => /\ purpose = "register"
              /\ SelectOtp(otp_codes, normalizeEmailForOtp(email), code, "register", now) # {}

(***************************************************************************)
(* Password reset.                                                         *)
(***************************************************************************)
NewPasswords == {"battery-staple", "short"}

\* every reset-password call that carries (email, code) is answered 400
EveryResetFails(email, code) ==
  \A newPassword \in NewPasswords, ev \in ResetPasswordEvents :
    \A user \in UserOf(email) :
      ResetPasswordOut(email, code, newPassword, ev, user).resp.status = 400

\* C15: reset-password replaces a stored secret only when its lookup returned
\* an unexpired reset-password row for (email, code); a call that is refused
\* (400, 404) writes nothing; and in the state a successful reset leaves, where
\* no code has been issued since, every reset-password call with the same
\* email and code is answered 400.
C15_ResetNeedsUnspentCode ==
  /\ [](\A email \in RequestEmails, code \in Codes, newPassword \in NewPasswords,
           ev \in ResetPasswordEvents :
          \A user \in UserOf(email) :
            LET o == ResetPasswordOut(email, code, newPassword, ev, user)
            IN  /\ o.users # users
                     => SelectOtp(otp_codes, email, code, "reset-password", now) # {}
                /\ o.resp.status \in {400, 404}
                     => o.users = users /\ o.otp_codes = otp_codes)
  /\ [][\A email \in RequestEmails, code \in Codes :
          SelectOtp(otp_codes, email, code, "reset-password", now) # {} =>
            \A newPassword \in NewPasswords, ev \in ResetPasswordEvents :
              \A user \in UserOf(email) :
                LET o == ResetPasswordOut(email, code, newPassword, ev, user)
                IN  o.resp.status = 200 /\ Commit(o) => EveryResetFails(email, code)'
       ]_vars

\* an account whose secret a reset replaced: its reset-password code is gone
\* and a reset with either code is refused
C15_Witness ==
  \E u \in users :
    /\ u.pw = Hash("battery-staple")
    /\ \A r \in BagToSet(otp_codes) : ~(r.email = u.email /\ r.purpose = "reset-password")
    /\ \A code \in Codes :
         ResetPasswordOut(u.email, code, "battery-staple", "none", u).resp.message
           = "Invalid or expired reset code"

(***************************************************************************)
(* What a response tells about the codes.                                  *)
(***************************************************************************)
\* the codes of the rows of a table
StoredCodes(otp) == {r.code : r \in BagToSet(otp)}

\* the one numeric field of the body is not a code on file before or after
\* the request (every other field is a fixed text or a value of the request)
NoCodeInBody(o) ==
  o.resp.token \notin StoredCodes(otp_codes) \cup StoredCodes(o.otp_codes)

\* the answer o1, given when code c1 was generated, is the answer o2 given when
\* c2 was, and neither carries a code on file
SameAnswer(o1, o2) == o1.resp = o2.resp /\ NoCodeInBody(o1) /\ NoCodeInBody(o2)

\* two codes that generateOtpCode may draw
CodePairs == {p \in Codes \X Codes : p[1] < p[2]}

\* C16: the answer of a code-issuing endpoint (register, login,
\* forgot-password, /otp/request) is the same whichever code was generated,
\* and no answer of these or of a verifying endpoint (verify-email,
\* verify-login-otp, /otp/verify, reset-password) carries a code on file.
C16_NoCodeInResponse ==
  /\ \A email \in RequestEmails, p \in CodePairs :
       /\ \A purpose \in Purposes, ev \in OtpRequestEvents :
            SameAnswer(OtpRequestOut(email, purpose, p[1], ev),
                       OtpRequestOut(email, purpose, p[2], ev))
       /\ \A name \in Names, accountType \in AccountTypes, ev \in RegisterEvents :
            SameAnswer(RegisterOut(name, email, "correct-horse", accountType, p[1], ev),
                       RegisterOut(name, email, "correct-horse", accountType, p[2], ev))
       /\ \A password \in Passwords, ev \in LoginEvents, user \in UserOf(email) :
            SameAnswer(LoginOut(email, password, p[1], ev, user),
                       LoginOut(email, password, p[2], ev, user))
       /\ \A ev \in ForgotPasswordEvents :
            SameAnswer(ForgotPasswordOut(email, p[1], ev),
                       ForgotPasswordOut(email, p[2], ev))
  /\ \A email \in RequestEmails, code \in Codes :
       /\ \A rd \in RegData, ev \in VerifyEmailEvents :
            NoCodeInBody(VerifyEmailOut(email, code, rd, ev))
       /\ \A ev \in VerifyLoginOtpEvents, user \in UserOf(email) :
            NoCodeInBody(VerifyLoginOtpOut(email, code, ev, user))
       /\ \A purpose \in Purposes, accountType \in AccountTypes, ev \in OtpVerifyEvents,
             user \in UserOfEither(email) :
            NoCodeInBody(OtpVerifyOut(email, code, purpose, accountType, ev, user))
       /\ \A newPassword \in NewPasswords, ev \in ResetPasswordEvents,
             user \in UserOf(email) :
            NoCodeInBody(ResetPasswordOut(email, code, newPassword, ev, user))

\* /otp/request has stored a code, and its answer for either code is the same
\* 200 without the code
C16_Witness ==
  \E r \in BagToSet(otp_codes), other \in Codes :
    /\ r.issuer = "otp/request" /\ other # r.code
    /\ OtpRequestOut(r.email, r.purpose, other, "none").resp.status = 200
    /\ OtpRequestOut(r.email, r.purpose, other, "none").resp
         = OtpRequestOut(r.email, r.purpose, r.code, "none").resp

EveryVerifyEmailFails(email, code) ==
  \A rd \in RegData, ev \in VerifyEmailEvents :
    VerifyEmailOut(email, code, rd, ev).resp.status = 400

\* verify-email found the code and then failed to create the account: the
\* email has an account (409) or an INSERT threw (500)
CreationFailed(o, ev) ==
  \/ o.resp.status = 409
  \/ o.resp.status = 500 /\ ev \in {"insert_user_fails", "insert_profile_fails"}

\* C19: in the state that a verify-email leaves which found the register code
\* and then failed to create the account (an account of the email exists, or
\* an INSERT threw), where no code has been issued since, every verify-email
\* with the same email and code is answered 400.
C19_ConsumedCodeStaysSpent ==
  [][\A email \in RequestEmails, code \in Codes :
       SelectOtp(otp_codes, email, code, "register", now) # {} =>
         \A rd \in RegData, ev \in VerifyEmailEvents :
           LET o == VerifyEmailOut(email, code, rd, ev)
           IN  CreationFailed(o, ev) /\ Commit(o) => EveryVerifyEmailFails(email, code)'
    ]_vars

\* a register code is on file for an email that has an account by now:
\* verify-email with it consumes the code and answers 409
C19_Witness ==
  \E email \in RequestEmails, code \in Codes, rd \in ReturnedRegData :
    /\ SelectOtp(otp_codes, email, code, "register", now) # {}
    /\ SelectUsersByEmail(users, email) # {}
    /\ VerifyEmailOut(email, code, rd, "none").resp.status = 409
    /\ RegisterRows(VerifyEmailOut(email, code, rd, "none").otp_codes, email) = {}

(***************************************************************************)
(* An account and its profile.                                             *)
(***************************************************************************)
\* C20: each account of type candidate has a candidates row and each account
\* of type company has a companies row: a profile INSERT that fails leaves no
\* account behind.
C20_AccountHasProfile ==
  \A u \in users :
    /\ u.type = "candidate" => u.id \in candidates
    /\ u.type = "company" => u.id \in companies

(***************************************************************************)
(* Requests of the login flow that overlap: /login with the second factor  *)
(* on and /verify-login-otp, one awaited statement per step.  The account  *)
(* of the email is registered and its password is the one sent.            *)
(***************************************************************************)
LoginRaceOps == {"login", "verify-login-otp"}

\* a request arrives: validation passes and, for /login, reCAPTCHA, the users
\* lookup and bcrypt.compare as well, and ENABLE_OTP_ON_LOGIN is 'true'
LoginRaceBegin(p) ==
  /\ procs[p].pc \in {"idle", "done"}
  /\ RequestsMade < MaxRaceRequests
  /\ \E op \in LoginRaceOps, email \in RaceEmails, code \in Codes :
       /\ op = "login" =>
            /\ env.ENABLE_OTP_ON_LOGIN
            /\ \E user \in SelectUsersByEmail(users, email) :
                 Compare("correct-horse", user.pw) = "match"
       /\ procs' = [procs EXCEPT ![p] =
                     [pc |-> IF op = "login" THEN "delete_otp" ELSE "select_otp",
                      op |-> op, email |-> email, code |-> code,
                      accountType |-> "", status |-> 0, id |-> 0,
                      refused |-> FALSE, n |-> procs[p].n + 1]]
  /\ UNCHANGED <<users, candidates, companies, otp_codes>>
  /\ RaceFrame

\* /verify-login-otp: SELECT * FROM otp_codes WHERE email, code, purpose '2fa',
\* expires_at > NOW()
LoginRaceSelectOtp(p) ==
  LET q == procs[p]
  IN  /\ q.pc = "select_otp"
      /\ q.op = "verify-login-otp"
      /\ procs' = [procs EXCEPT ![p] =
                     IF SelectOtp(otp_codes, q.email, q.code, "2fa", now) = {}
                       THEN Done(q, 400, FALSE)
                     ELSE [q EXCEPT !.pc = "delete_otp"]]
      /\ UNCHANGED <<users, candidates, companies, otp_codes>>
      /\ RaceFrame

\* /login: DELETE FROM otp_codes WHERE email = $1;
\* /verify-login-otp: DELETE FROM otp_codes WHERE email = $1 AND purpose = $2
LoginRaceDeleteOtp(p) ==
  LET q == procs[p]
  IN  /\ q.pc = "delete_otp"
      /\ q.op \in LoginRaceOps
      /\ otp_codes' = IF q.op = "login" THEN DeleteOtpByEmail(otp_codes, q.email)
                      ELSE DeleteOtpByEmailPurpose(otp_codes, q.email, "2fa")
      /\ procs' = [procs EXCEPT ![p] =
                     [q EXCEPT !.pc = IF q.op = "login" THEN "insert_otp"
                                      ELSE "select_user"]]
      /\ UNCHANGED <<users, candidates, companies>>
      /\ RaceFrame

\* /login: INSERT INTO otp_codes (email, code, '2fa'), then otpRequired
LoginRaceInsertOtp(p) ==
  LET q == procs[p]
  IN  /\ q.pc = "insert_otp"
      /\ q.op = "login"
      /\ otp_codes' = InsertOtp(otp_codes, q.email, q.code, "2fa", now, "login")
      /\ procs' = [procs EXCEPT ![p] = Done(q, 200, FALSE)]
      /\ UNCHANGED <<users, candidates, companies>>
      /\ RaceFrame

\* /verify-login-otp: SELECT ... FROM users WHERE email = $1, then the token;
\* id is the account the token names
LoginRaceSelectUser(p) ==
  LET q == procs[p]
      found == SelectUsersByEmail(users, q.email)
  IN  /\ q.pc = "select_user"
      /\ procs' = [procs EXCEPT ![p] =
                     IF found = {} THEN Done(q, 404, FALSE)
                     ELSE [Done(q, 200, FALSE) EXCEPT
                             !.id = generateToken((CHOOSE u \in found : TRUE).id)]]
      /\ UNCHANGED <<users, candidates, companies, otp_codes>>
      /\ RaceFrame

LoginRaceNext ==
  \E p \in RaceProcs :
    \/ LoginRaceBegin(p)
    \/ LoginRaceSelectOtp(p)
    \/ LoginRaceDeleteOtp(p)
    \/ LoginRaceInsertOtp(p)
    \/ LoginRaceSelectUser(p)

SpecLoginRace == InitEmployment /\ [][LoginRaceNext]_vars

\* the request of slot p is a /verify-login-otp that has been answered
VerifyAnswered(p) == procs[p].pc = "done" /\ procs[p].op = "verify-login-otp"

\* C21: of two verify-login-otp calls with the same email and code that
\* overlap on the one code a login stored (three requests in all: the login
\* and the two calls), one at most is answered with a token, and when one is,
\* the other is answered 400.
C21_OneConcurrentVerifySucceeds ==
  \A p, q \in RaceProcs :
    (/\ p # q
     /\ RequestsMade <= 3
     /\ VerifyAnswered(p) /\ VerifyAnswered(q)
     /\ procs[p].email = procs[q].email /\ procs[p].code = procs[q].code
     /\ procs[p].status = 200)
      => procs[q].status = 400 /\ procs[q].id = 0

(***************************************************************************)
(* Two unexpired codes under one stored (email, purpose).                  *)
(***************************************************************************)
\* the unexpired rows of the table otp that are stored under (email, purpose)
StoredCount(otp, email, purpose, t) ==
  BagCardinality(BagOf(otp, {r \in BagToSet(otp) :
                               r.email = email /\ r.purpose = purpose /\ r.expires_at > t}))

\* the request emails under which /otp/request and /otp/verify reach the rows
\* stored under email
NormalisingTo(email) == {e \in RequestEmails : normalizeEmailForOtp(e) = email}

\* a code request that stores its row under (email, purpose) and whose
\* statements all execute leaves that row alone unexpired under the pair
RequestLeavesOne(email, purpose, code) ==
  /\ purpose = "register" =>
       \A accountType \in {"candidate", "company"} :
         LET o == RegisterOut("Ann", email, "correct-horse", accountType, code, "none")
         IN  o.resp.flag = "requiresVerification"
               => StoredCount(o.otp_codes, email, purpose, now) = 1
  /\ purpose = "2fa" =>
       \A user \in UserOf(email) :
         LET o == LoginOut(email, "correct-horse", code, "none", user)
         IN  o.resp.flag = "otpRequired"
               => StoredCount(o.otp_codes, email, purpose, now) = 1
  /\ purpose = "reset-password" =>
       LET o == ForgotPasswordOut(email, code, "none")
       IN  o.otp_codes # otp_codes => StoredCount(o.otp_codes, email, purpose, now) = 1
  /\ \A e \in NormalisingTo(email) :
       LET o == OtpRequestOut(e, purpose, code, "none")
       IN  o.resp.status = 200 => StoredCount(o.otp_codes, email, purpose, now) = 1

\* a verification that is accepted for a row stored under (email, purpose)
\* leaves no unexpired row under the pair
VerifyLeavesNone(email, purpose, code) ==
  /\ purpose = "register" =>
       \A rd \in RegData :
         LET o == VerifyEmailOut(email, code, rd, "none")
         IN  o.resp.status = 200 => StoredCount(o.otp_codes, email, purpose, now) = 0
  /\ purpose = "2fa" =>
       \A user \in UserOf(email) :
         LET o == VerifyLoginOtpOut(email, code, "none", user)
         IN  o.resp.status = 200 => StoredCount(o.otp_codes, email, purpose, now) = 0
  /\ purpose = "reset-password" =>
       \A user \in UserOf(email) :
         LET o == ResetPasswordOut(email, code, "battery-staple", "none", user)
         IN  o.resp.status = 200 => StoredCount(o.otp_codes, email, purpose, now) = 0
  /\ \A e \in NormalisingTo(email), accountType \in AccountTypes :
       \A user \in UserOfEither(e) :
         LET o == OtpVerifyOut(e, code, purpose, accountType, "none", user)
         IN  o.resp.status = 200 => StoredCount(o.otp_codes, email, purpose, now) = 0

\* C22: two code-issuing requests for one (email, purpose) whose DELETE and
\* INSERT statements interleave leave two unexpired codes under the pair; the
\* DELETE of the next request for the pair removes every row of the pair, so
\* the next code request whose statements all execute leaves its own code
\* alone and the next accepted verification leaves none.
C22_TwoCodesUntilNextRequest ==
  /\ [](\A r \in Unexpired(otp_codes, now), code \in Codes :
          /\ RequestLeavesOne(r.email, r.purpose, code)
          /\ VerifyLeavesNone(r.email, r.purpose, r.code))
  /\ [][\A p \in RaceProcs :
          RaceDeleteOtp(p) =>
            StoredCount(otp_codes', LookupEmail(procs[p]), "register", now') = 0
       ]_vars

\* two /register requests have both answered 201 and both their codes are on
\* file unexpired under the one email; the next /register would leave one
C22_Witness ==
  \E email \in RaceEmails :
    /\ StoredCount(otp_codes, email, "register", now) = 2
    /\ \A p \in RaceProcs :
         procs[p].pc = "done" /\ procs[p].op = "register" /\ procs[p].status = 201
           /\ procs[p].email = email
    /\ \A code \in Codes :
         StoredCount(RegisterOut("Ann", email, "correct-horse", "candidate", code,
                                 "none").otp_codes, email, "register", now) = 1

(***************************************************************************)
(* The email under which a flow stores a code and looks it up.             *)
(***************************************************************************)
\* the code check of the verifying handler passed for row r: the answer is not
\* the 400 of a missing code and no row is left under the pair of r
CodeAccepted(o, r) ==
  /\ o.resp.status # 400
  /\ StoredCount(o.otp_codes, r.email, r.purpose, now) = 0

Deliveries == {"none"} \cup MailEvents

\* the request answers as delivered does, writes what delivered writes, and
\* its code is on file unexpired under (email, purpose)
AsDelivered(o, delivered, email, code, purpose) ==
  /\ o.resp.status = delivered.resp.status
  /\ o.resp.status \in {200, 201}
  /\ o.resp.flag = delivered.resp.flag \/ delivered.resp.op = "otp/request"
  /\ <<o.users, o.candidates, o.companies, o.otp_codes>>
       = <<delivered.users, delivered.candidates, delivered.companies,
           delivered.otp_codes>>
  /\ SelectOtp(o.otp_codes, email, code, purpose, now) # {}

\* C24: a register (code path), a login with the second factor, a
\* forgot-password and an /otp/request that stored their code answer with the
\* success status (and register, login and forgot-password with the same body)
\* whether the mailer delivers, skips, fails or throws, and the stored code is
\* on file unexpired under the email and purpose the verifying handler uses.
C24_MailOutcomeNeverBlocks ==
  \A email \in RequestEmails, code \in Codes, ev \in Deliveries :
    /\ \A accountType \in {"candidate", "company"} :
         LET delivered == RegisterOut("Ann", email, "correct-horse", accountType, code,
                                      "none")
         IN  delivered.resp.flag = "requiresVerification" =>
               AsDelivered(RegisterOut("Ann", email, "correct-horse", accountType, code,
                                       ev), delivered, email, code, "register")
    /\ \A user \in UserOf(email) :
         LET delivered == LoginOut(email, "correct-horse", code, "none", user)
         IN  delivered.resp.flag = "otpRequired" =>
               AsDelivered(LoginOut(email, "correct-horse", code, ev, user), delivered,
                           email, code, "2fa")
    /\ IsEmail(email) /\ SelectUsersByEmail(users, email) # {} =>
         AsDelivered(ForgotPasswordOut(email, code, ev),
                     ForgotPasswordOut(email, code, "none"), email, code,
                     "reset-password")
    /\ \A purpose \in Purposes :
         LET delivered == OtpRequestOut(email, purpose, code, "none")
         IN  delivered.resp.status = 200 =>
               AsDelivered(OtpRequestOut(email, purpose, code, ev), delivered,
                           normalizeEmailForOtp(email), code, purpose)

\* the state that a forgot-password leaves whose mail threw: the reset code of
\* the account is on file, the answer was the 200, and reset-password takes it
C24_Witness ==
  \E r \in Unexpired(otp_codes, now) :
    /\ r.issuer = "forgot-password" /\ r.created_at = now
    /\ ForgotPasswordOut(r.email, r.code, "mail_threw").otp_codes = otp_codes
    /\ ForgotPasswordOut(r.email, r.code, "mail_threw").resp.status = 200
    /\ \A user \in UserOf(r.email) :
         ResetPasswordOut(r.email, r.code, "battery-staple", "none", user).resp.status
           = 200

(***************************************************************************)
(* Uploads inside a transaction: the candidate's submission and the         *)
(* company's HR document, next to the admin's decisions on a company.      *)
(***************************************************************************)
UploadNext ==
  \/ SubmitEmploymentVerification
  \/ HrVerification
  \/ AdminVerifyCompany
  \/ AdminRejectCompany

SpecUpload == InitEmployment /\ [][UploadNext]_vars

\* C25: when the upload to the object storage fails, the employment
\* submission of a candidate and the HR upload of a company with a companies
\* row answer 500, and whoever the caller is no employment_history row is
\* inserted and no companies row (nor users row) is changed.
C25_FailedUploadLeavesNoRow ==
  /\ \A caller \in Callers, companyName \in CompanyNames, companyId \in CompanyIds,
        verificationType \in VerificationTypes :
       LET o == SubmitEmploymentVerificationOut(caller, companyName, companyId,
                                                verificationType, TRUE, TRUE)
       IN  /\ o.employment_history = employment_history
           /\ Guard(caller, "candidate") = 200 => o.resp.status = 500
  /\ \A caller \in Callers :
       \A company \in RowsOr(CompanyOf(caller), NoCompany) :
         LET o == HrVerificationOut(caller, company, TRUE, TRUE)
         IN  /\ o.company_rows = company_rows
             /\ o.users = users
             /\ Guard(caller, "company") = 200 /\ company # NoCompany
                  => o.resp.status = 500

\* a company that an admin verified after its HR upload, and a submission on
\* file: an HR upload and a submission whose upload fails are answered 500
\* and the verified row and the table stay
C25_Witness ==
  /\ employment_history # {}
  /\ \E caller \in Callers, company \in company_rows :
       /\ company \in CompanyOf(caller)
       /\ company.verification_status = "verified"
       /\ company.hr_document_url = "hr-doc"
       /\ HrVerificationOut(caller, company, TRUE, TRUE).resp.status = 500
       /\ HrVerificationOut(caller, company, TRUE, FALSE).resp.status = 200
  /\ \E caller \in Callers :
       /\ SubmitEmploymentVerificationOut(caller, <<"a", "b">>, 5, "manual", TRUE,
                                          TRUE).resp.status = 500
       /\ SubmitEmploymentVerificationOut(caller, <<"a", "b">>, 5, "manual", TRUE,
                                          FALSE).resp.status = 201

(***************************************************************************)
(* utils/mailer.js: sendOtpEmail and createWorkingTransport.  A step is    *)
(* the code between two awaits; verify() and sendMail() settle either way. *)
(***************************************************************************)
\* sendOtpEmail calls of one behaviour
MaxMailerCalls == 2
\* minutes that pass in one step of the clock, and the last minute
MailerClockStep == 3
MaxMailerClock == 6

\* TRANSPORT_CACHE_TTL = 5 * 60 * 1000 ms, in minutes
TransportCacheTtl == 5

\* the SMTP settings of process.env that the model draws
SmtpConfigs ==
  {NoSmtp} \cup {[configured |-> TRUE, port |-> port, secure |-> secure] :
                   port \in {0, 587, 2525}, secure \in {"", "true", "false"}}

\* a faulty variant: the implicit-TLS port before the STARTTLS port
buildSmtpCandidatesSslFirst(smtp) ==
  IF ~smtp.configured THEN <<>>
  ELSE (IF smtp.port # 0
          THEN <<[port |-> smtp.port, secure |-> (smtp.secure = "true")]>>
        ELSE <<>>)
         \o <<[port |-> 465, secure |-> TRUE], [port |-> 587, secure |-> FALSE]>>

\* buildSmtpCandidates: the configured port with secure: !!configuredSecure
\* when SMTP_PORT is set, then 587 STARTTLS, then 465 SSL
buildSmtpCandidates(smtp) ==
  IF ~smtp.configured THEN <<>>
  ELSE (IF smtp.port # 0
          THEN <<[port |-> smtp.port, secure |-> (smtp.secure = "true")]>>
        ELSE <<>>)
         \o <<[port |-> 587, secure |-> FALSE], [port |-> 465, secure |-> TRUE]>>

MailerFrame ==
  UNCHANGED <<users, candidates, companies, otp_codes, now, env, procs,
              employment_history, company_rows, job_applications>>

\* sendOtpEmail up to its first await, createWorkingTransport up to the loop:
\* skipped without SMTP_HOST and SMTP_USER; the cached transport while it is
\* younger than the TTL; else the first candidate
SendOtpEmailCall ==
  /\ mailer.pc = "idle"
  /\ mailer.calls < MaxMailerCalls
  /\ LET m == [mailer EXCEPT !.calls = @ + 1, !.tried = <<>>, !.i = 0,
                             !.transport = NoTransport, !.answer = "",
                             !.callTime = mailer.clock]
     IN  mailer' =
           IF ~mailer.smtp.configured THEN [m EXCEPT !.answer = "skipped"]
           ELSE IF /\ mailer.cachedTransport # NoTransport
                   /\ mailer.clock - mailer.lastTransportCheck < TransportCacheTtl
             THEN [m EXCEPT !.transport = mailer.cachedTransport, !.pc = "send"]
           ELSE IF buildSmtpCandidates(mailer.smtp) = <<>>
             THEN [m EXCEPT !.cachedTransport = NoTransport, !.answer = "failed"]
           ELSE [m EXCEPT !.pc = "verify", !.i = 1]
  /\ MailerFrame

\* one pass of the for loop: createTransport(cfg) and await t.verify(); after
\* the last candidate cachedTransport = null, createWorkingTransport returns
\* null and sendOtpEmail returns { ok: false, error }
VerifyCandidate ==
  /\ mailer.pc = "verify"
  /\ \E verified \in BOOLEAN :
       LET cfg == buildSmtpCandidates(mailer.smtp)[mailer.i]
           m == [mailer EXCEPT !.tried = Append(@, [cfg |-> cfg, verified |-> verified])]
       IN  mailer' =
             IF verified
               THEN [m EXCEPT !.cachedTransport = cfg,
                              !.lastTransportCheck = mailer.callTime,
                              !.transport = cfg, !.pc = "send"]
             ELSE IF mailer.i < Len(buildSmtpCandidates(mailer.smtp))
               THEN [m EXCEPT !.i = @ + 1]
             ELSE [m EXCEPT !.cachedTransport = NoTransport, !.pc = "idle",
                            !.answer = "failed"]
  /\ MailerFrame

\* await transport.sendMail(...) inside try/catch: { ok: true } or { ok: false }
SendMail ==
  /\ mailer.pc = "send"
  /\ \E sent \in BOOLEAN :
       mailer' = [mailer EXCEPT !.pc = "idle",
                                !.answer = IF sent THEN "ok" ELSE "failed"]
  /\ MailerFrame

\* Date.now() moves on
MailerClock ==
  /\ mailer.clock + MailerClockStep <= MaxMailerClock
  /\ mailer' = [mailer EXCEPT !.clock = @ + MailerClockStep]
  /\ MailerFrame

InitMailer ==
  /\ EmptyTables
  /\ env = [REQUIRE_OTP_ON_REGISTER |-> TRUE, ENABLE_OTP_ON_LOGIN |-> TRUE]
  /\ procs = [p \in RaceProcs |-> Idle]
  /\ employment_history = {}
  /\ company_rows = {}
  /\ job_applications = {}
  /\ mailer \in {MailerAtStart(smtp) : smtp \in SmtpConfigs}

MailerNext ==
  \/ SendOtpEmailCall
  \/ VerifyCandidate
  \/ SendMail
  \/ MailerClock

SpecMailer == InitMailer /\ [][MailerNext]_vars

\* an awaited verify() or sendMail() settles and the function goes on
SpecMailerFair == SpecMailer /\ WF_vars(VerifyCandidate) /\ WF_vars(SendMail)

\* the ports in the order the candidates are to be tried
PortsInOrder(smtp) == (IF smtp.port # 0 THEN <<smtp.port>> ELSE <<>>) \o <<587, 465>>

\* the tries of the call so far follow the order, one try per candidate, the
\* fallbacks 587 without TLS and 465 with TLS, and no try follows a success
TriesInOrder ==
  LET ports == PortsInOrder(mailer.smtp)
      own == Len(ports) - 2
  IN  /\ Len(mailer.tried) <= Len(ports)
      /\ \A k \in 1..Len(mailer.tried) :
           /\ mailer.tried[k].cfg.port = ports[k]
           /\ k = own + 1 => ~mailer.tried[k].cfg.secure
           /\ k = own + 2 => mailer.tried[k].cfg.secure
           /\ k < Len(mailer.tried) => ~mailer.tried[k].verified

\* what createWorkingTransport returned: the first candidate that verified,
\* null after every candidate failed, or, with no try, the cached transport
ReturnedTransport ==
  mailer.pc \in {"idle", "send"} /\ mailer.calls > 0 /\ mailer.smtp.configured =>
    IF mailer.tried = <<>>
      THEN /\ mailer.transport = mailer.cachedTransport
           /\ mailer.transport # NoTransport
           /\ mailer.callTime - mailer.lastTransportCheck < TransportCacheTtl
    ELSE IF mailer.tried[Len(mailer.tried)].verified
      THEN mailer.transport = mailer.tried[Len(mailer.tried)].cfg
    ELSE /\ Len(mailer.tried) = Len(PortsInOrder(mailer.smtp))
         /\ mailer.transport = NoTransport
         /\ mailer.pc = "idle" /\ mailer.answer = "failed"

\* C26: createWorkingTransport tries the candidates in the order configured
\* port (when set), 587 without TLS, 465 with TLS, each once at most in a
\* call, and returns the first that verifies, or null after all failed (or the
\* cached transport, untried, while the cache is fresh); the call returns, and
\* sendOtpEmail returns: with { ok: false } when the transport is null.
C26_FailoverInOrderAndEnds ==
  /\ [](TriesInOrder /\ ReturnedTransport)
  /\ (mailer.pc = "verify") ~> (mailer.pc # "verify")
  /\ (mailer.pc # "idle") ~> (mailer.pc = "idle" /\ mailer.answer \in {"ok", "failed"})

\* a call has returned { ok: false } after the configured port 2525, then 587,
\* then 465 each failed to verify once
C26_Witness ==
  /\ mailer.pc = "idle" /\ mailer.answer = "failed"
  /\ Len(mailer.tried) = 3
  /\ mailer.tried[1].cfg.port = 2525
  /\ \A k \in 1..3 : ~mailer.tried[k].verified
  /\ mailer.cachedTransport = NoTransport

(***************************************************************************)
(* Who can store a code with purpose '2fa'                                 *)
(***************************************************************************)
\* C27: an unexpired code with purpose '2fa' exists only as the result of a
\* login that passed the password check; no other endpoint stores one, so
\* verify-login-otp gives a token only after such a login.
C27_TwoFactorCodeOnlyFromLogin ==
  /\ \A r \in Unexpired(otp_codes, now) : r.purpose = "2fa" => r.issuer = "login"
  /\ \A email \in RequestEmails, purpose \in Purposes, code \in Codes :
       \A r \in BagToSet(OtpRequestOut(email, purpose, code, "none").otp_codes) :
         r.purpose = "2fa" => r \in BagToSet(otp_codes)
  /\ \A email \in RequestEmails, code \in Codes :
       \A user \in UserOf(email) :
         VerifyLoginOtpOut(email, code, "none", user).resp.status = 200 =>
           \E r \in Unexpired(otp_codes, now) :
             /\ r.purpose = "2fa" /\ r.code = code /\ r.issuer = "login"

(***************************************************************************)
(* The two columns of a company's verification                             *)
(***************************************************************************)
\* C28: in every state reached through admin verify, admin reject, admin
\* update and HR-document upload, is_verified is true for a company row
\* exactly when its verification_status is 'verified'.
C28_VerifiedFlagMatchesStatus ==
  \A c \in company_rows : c.is_verified <=> (c.verification_status = "verified")

(***************************************************************************)
(* What issuing a code leaves alone                                        *)
(***************************************************************************)
\* the handler's result o keeps each stored code of another email, and each
\* unexpired code of the email that has another purpose, as often as before
OtherCodesKept(o, email, purpose) ==
  \A r \in BagToSet(otp_codes) :
    (r.email # email \/ (r.purpose # purpose /\ r.expires_at > now)) =>
      CopiesIn(r, o.otp_codes) = CopiesIn(r, otp_codes)

\* C29: issuing a code for (email, purpose P) through register, login with
\* the second factor, forgot-password or /otp/request leaves every stored code
\* of another email as it is, and leaves the unexpired codes of the same email
\* with a purpose other than P as they are.
C29_IssuingKeepsOtherCodes ==
  \A email \in RequestEmails, code \in Codes :
    /\ \A purpose \in Purposes :
         OtherCodesKept(OtpRequestOut(email, purpose, code, "none"),
                        normalizeEmailForOtp(email), purpose)
    /\ \A name \in Names, password \in Passwords, accountType \in AccountTypes :
         OtherCodesKept(RegisterOut(name, email, password, accountType, code, "none"),
                        email, "register")
    /\ \A password \in Passwords, user \in UserOf(email) :
         OtherCodesKept(LoginOut(email, password, code, "none", user), email, "2fa")
    /\ OtherCodesKept(ForgotPasswordOut(email, code, "none"), email, "reset-password")

(***************************************************************************)
(* Job applications: POST /:id/apply, one awaited query per step, next to  *)
(* the candidate's withdraw and the company's status update.               *)
(***************************************************************************)
\* rows of job_applications, requests in flight counted in
MaxApplications == 3

\* table jobs: the active job of company 5, which asks for a resume
Jobs == {[id |-> 7, company_id |-> 5, resume_required |-> TRUE]}
JobIds == {7, 8}

\* the values of job_applications.status that the handlers write and read
ApplicationStatuses == {"pending", "accepted", "rejected", "withdrawn"}

\* SELECT id FROM job_applications
\*   WHERE job_id = $1 AND user_id = $2 AND status != 'withdrawn'
ActiveApplications(ja, job_id, user_id) ==
  {a \in ja : a.job_id = job_id /\ a.user_id = user_id /\ a.status # "withdrawn"}

ApplyFrame ==
  UNCHANGED <<users, candidates, companies, otp_codes, now, env,
              employment_history, company_rows, mailer>>

\* apply requests between their first query and their answer
ApplyInFlight == {p \in RaceProcs : procs[p].pc \in {"apply_check", "apply_insert"}}

\* POST /:id/apply arrives: 403 unless a candidate calls, 404 unless the job
\* is active, 400 when the job asks for a resume and none is sent
ApplyBegin(p) ==
  /\ procs[p].pc \in {"idle", "done"}
  /\ Cardinality(job_applications) + Cardinality(ApplyInFlight) < MaxApplications
  /\ \E caller \in SeedUsers, id \in JobIds, hasResume \in BOOLEAN :
       LET q == [Idle EXCEPT !.op = "apply", !.email = caller.email, !.id = id]
       IN  procs' = [procs EXCEPT ![p] =
                       IF caller.type # "candidate" THEN Done(q, 403, TRUE)
                       ELSE IF ~\E job \in Jobs : job.id = id THEN Done(q, 404, TRUE)
                       ELSE IF ~hasResume THEN Done(q, 400, TRUE)
                       ELSE [q EXCEPT !.pc = "apply_check"]]
  /\ UNCHANGED job_applications
  /\ ApplyFrame

\* req.user.id of the request in slot p
ApplicantId(q) == (CHOOSE u \in users : u.email = q.email).id

\* the check for an active application: 400 'You have already applied'
ApplyCheck(p) ==
  LET q == procs[p]
  IN  /\ q.pc = "apply_check"
      /\ procs' = [procs EXCEPT ![p] =
                     IF ActiveApplications(job_applications, q.id, ApplicantId(q)) # {}
                       THEN Done(q, 400, TRUE)
                     ELSE [q EXCEPT !.pc = "apply_insert"]]
      /\ UNCHANGED job_applications
      /\ ApplyFrame

\* INSERT INTO job_applications (...) VALUES (..., 'pending') RETURNING *
ApplyInsert(p) ==
  LET q == procs[p]
  IN  /\ q.pc = "apply_insert"
      /\ job_applications' =
           job_applications \cup
             {[id |-> Cardinality(job_applications) + 1, job_id |-> q.id,
               user_id |-> ApplicantId(q), status |-> "pending"]}
      /\ procs' = [procs EXCEPT ![p] = Done(q, 200, FALSE)]
      /\ ApplyFrame

\* DELETE /applications/:applicationId/withdraw: the caller's own application
\* that is neither withdrawn nor rejected becomes withdrawn
WithdrawApplication ==
  \E caller \in SeedUsers, a \in job_applications :
    /\ a.user_id = caller.id
    /\ a.status \notin {"withdrawn", "rejected"}
    /\ job_applications' =
         (job_applications \ {a}) \cup {[a EXCEPT !.status = "withdrawn"]}
    /\ UNCHANGED procs
    /\ ApplyFrame

\* PUT /applications/:applicationId/status: a company sets the status of an
\* application to one of its jobs to the status of the body
UpdateApplicationStatus ==
  \E caller \in SeedUsers, a \in job_applications, status \in ApplicationStatuses :
    /\ caller.type = "company"
    /\ \E c \in CompanyOf(caller), job \in Jobs :
         job.id = a.job_id /\ job.company_id = c.id
    /\ status # a.status
    /\ job_applications' = (job_applications \ {a}) \cup {[a EXCEPT !.status = status]}
    /\ UNCHANGED procs
    /\ ApplyFrame

ApplyNext ==
  \/ \E p \in RaceProcs : ApplyBegin(p) \/ ApplyCheck(p) \/ ApplyInsert(p)
  \/ WithdrawApplication
  \/ UpdateApplicationStatus

SpecApply == InitEmployment /\ [][ApplyNext]_vars

\* C30: for every job and user at most one application with a status other
\* than 'withdrawn' exists in every reachable state, also when two apply
\* requests of the pair interleave their check and their insert.
C30_OneActiveApplicationPerPair ==
  \A id \in JobIds, u \in users :
    Cardinality(ActiveApplications(job_applications, id, u.id)) <= 1

====
